---- MODULE Spec2Model ----
(***************************************************************************)
(* Model of voicevox_engine/aivm_manager.py: the AivmManager registry of   *)
(* installed voice-model packages and its style-id codec.                  *)
(*                                                                         *)
(* Spec       the registry: constructor, listing, install, update,         *)
(*            uninstall, load-state updates, background reconciliation.    *)
(* OpsSpec, HubSpec, DiskSpec, FlightSpec, WriteSpec                       *)
(*            the registry in environments that record every step.         *)
(* ReadSpec   the registry with the lookups in its cache.                  *)
(* ScanSpec   forced scans run by threads, statement by statement.         *)
(* LoadRaceSpec                                                            *)
(*            one such scan interleaved with load-state updates.           *)
(* VoiceSpec  packages with several speakers and the lookup by name.       *)
(* SynthSpec  the handler synthesis_from_text of app/routers/tts_pipeline. *)
(* FairSpec   forced rescans under fair scheduling of the update checks.   *)
(* CodecSpec  the two static codec functions applied to bounded inputs.    *)
(***************************************************************************)
EXTENDS Integers, Sequences, FiniteSets, TLC

VARIABLES
    \* ---- codec harness ----
    md5,        \* speaker uuid -> low bits of int(md5(uuid).hexdigest(), 16)
    procSeed,   \* per-process hash seed (changes at a process restart)
    encIn,      \* arguments of the last local_style_id_to_style_id call
    encOut,     \* what that call returned or raised
    encAgain,   \* what a later call with the same arguments returned
    \* ---- registry ----
    env,        \* which environment the run is bounded to (fixed by Init)
    phase,      \* "new" before __init__, then "ready" or "raised"
    files,      \* the install directory: file name -> package bytes
    cache,      \* self._installed_aivm_infos: None or the ordered dict
    dispatched, \* background threads started whose coroutine has not run yet
    tasks,      \* uuid -> in-flight background fetches on the cached objects
    syncTasks,  \* uuids whose fetch the running operation still waits for
    last,       \* the operation performed by the last step and its outcome
    scans       \* thread -> the locals of its call of get_installed_aivm_infos

codecVars == <<md5, procSeed, encIn, encOut, encAgain>>
registryVars ==
    <<env, phase, files, cache, dispatched, tasks, syncTasks, last, scans>>
vars == <<md5, procSeed, encIn, encOut, encAgain,
          env, phase, files, cache, dispatched, tasks, syncTasks, last, scans>>

\* results of calls: what was returned, what was raised, or no call yet
Return(v) == [returned |-> v]

Raise(e) == [raised |-> e]

NoCall == [nocall |-> TRUE]

Returned(r) == "returned" \in DOMAIN r

Raised(r) == "raised" \in DOMAIN r

\* F applied to the value of v, with v evaluated once
Let(v, F(_)) == CHOOSE res \in {F(x) : x \in {v}} : TRUE

(***************************************************************************)
(* Python integers as bit vectors.  combined_id reaches 2^32 - 1, which is *)
(* beyond the integers the checker computes with, so the codec works on    *)
(* vectors of WordBits bits (two's complement for negative arguments).     *)
(***************************************************************************)
WordBits == 33

BitIdx == 0..(WordBits - 1)

BitOf(n, i) ==
    IF i > 30 THEN (IF n < 0 THEN 1 ELSE 0) ELSE (n \div (2^i)) % 2

ToBits(n) == [i \in BitIdx |-> BitOf(n, i)]

OneShl(k) == [i \in BitIdx |-> IF i = k THEN 1 ELSE 0]

BitAnd(a, b) == [i \in BitIdx |-> IF a[i] = 1 /\ b[i] = 1 THEN 1 ELSE 0]

BitOr(a, b) == [i \in BitIdx |-> IF a[i] = 1 \/ b[i] = 1 THEN 1 ELSE 0]

BitNot(a) == [i \in BitIdx |-> 1 - a[i]]

ShiftLeft(a, k) == [i \in BitIdx |-> IF i < k THEN 0 ELSE a[i - k]]

ZeroBits == [i \in BitIdx |-> 0]

RECURSIVE LowInt(_, _)
\* the integer held by bits 0..(n-1) of a
LowInt(a, n) == IF n = 0 THEN 0 ELSE LowInt(a, n - 1) + a[n - 1] * (2^(n - 1))

(***************************************************************************)
(* Style-id codec (static methods of AivmManager).                         *)
(***************************************************************************)
ValueError == "ValueError"

MutMaxUuidBits == 27 - 2
MAX_UUID_BITS == 27

UUID_BIT_MASK == ToBits((2^MAX_UUID_BITS) - 1)

MutLocalStyleIdBits == 5 - 1
LOCAL_STYLE_ID_BITS == 5

LOCAL_STYLE_ID_MASK == ToBits((2^LOCAL_STYLE_ID_BITS) - 1)

SIGN_BIT == OneShl(31)

\* a digest that depends on the process, as the salted built-in hash() does
Md5IntSeeded(speaker_uuid) == md5[speaker_uuid] + procSeed
\* int(hashlib.md5(speaker_uuid.encode()).hexdigest(), 16): a fixed function
Md5Int(speaker_uuid) == md5[speaker_uuid]

\* the range check admits 32
ArgsRejectedMut(local_style_id, speaker_uuid) ==
    speaker_uuid = "" \/ ~(0 <= local_style_id /\ local_style_id <= 32)
ArgsRejected(local_style_id, speaker_uuid) ==
    speaker_uuid = "" \/ ~(0 <= local_style_id /\ local_style_id <= 31)

\* the sign bit is left as it is
ClearSignMut(combined_id) == combined_id
ClearSign(combined_id) ==
    IF BitAnd(combined_id, SIGN_BIT) # ZeroBits
    THEN BitAnd(combined_id, BitNot(SIGN_BIT))
    ELSE combined_id

local_style_id_to_style_id(local_style_id, speaker_uuid) ==
    IF ArgsRejected(local_style_id, speaker_uuid)
    THEN Raise(ValueError)
    ELSE LET uuid_hash == BitAnd(ToBits(Md5Int(speaker_uuid)), UUID_BIT_MASK)
             local_style_id_masked ==
                 BitAnd(ToBits(local_style_id), LOCAL_STYLE_ID_MASK)
             combined_id ==
                 BitOr(ShiftLeft(uuid_hash, LOCAL_STYLE_ID_BITS),
                       local_style_id_masked)
         IN  Let(combined_id, LAMBDA id : Return(ClearSign(id)))

style_id_to_local_style_id(style_id) == LowInt(BitAnd(style_id, ToBits(31)), 5)

(***************************************************************************)
(* Codec harness: the codec applied to bounded arguments.                  *)
(***************************************************************************)
SpeakerUuids == {"spk-d", "spk-x"}

\* digests around the bits the codec treats specially (25, 26, 27)
DigestSamples ==
    {0, 1, (2^25) + 1, 2^26, (2^26) + 1, (2^27) - 1, 2^27}

\* how far beyond 0..31 the local style ids tried reach
ArgMargin == 2

LocalIdArgs == (0 - ArgMargin)..(31 + ArgMargin)

ValidArgs(local_style_id, speaker_uuid) ==
    speaker_uuid # "" /\ local_style_id \in 0..31

Encode(local_style_id, speaker_uuid) ==
    /\ encIn = <<>>
    /\ encIn' = <<local_style_id, speaker_uuid>>
    /\ encOut' = local_style_id_to_style_id(local_style_id, speaker_uuid)
    /\ encAgain' = NoCall
    /\ UNCHANGED <<md5, procSeed>>

\* a second call with the arguments of the last one
EncodeAgain ==
    /\ encIn # <<>>
    /\ encAgain' = local_style_id_to_style_id(encIn[1], encIn[2])
    /\ UNCHANGED <<md5, procSeed, encIn, encOut>>

\* the process is restarted: the hash seed changes, md5 does not
Restart ==
    /\ procSeed' = 1 - procSeed
    /\ UNCHANGED <<md5, encIn, encOut, encAgain>>

(***************************************************************************)
(* Packages, manifests and the install directory.                          *)
(***************************************************************************)
DEFAULT_MODEL_UUIDS == <<"a59cb814">>

ModelUuids == {"a59cb814", "x-model"}

SUPPORTED_MANIFEST_VERSIONS == << <<"1", "0">> >>

SUPPORTED_MODEL_ARCHITECTURES ==
    {"Style-Bert-VITS2", "Style-Bert-VITS2 (JP-Extra)"}

\* version strings as their dot-separated numbers; three of them parse
V100 == <<1, 0, 0>>

V120 == <<1, 2, 0>>

BadVersion == <<1, 2>>

\* data URLs as token sequences
IconUrl == <<"data:", "image/png;base64", ",", "iVBOR">>

WavUrl == <<"data:", "audio/wav;base64", ",", "UklGR">>

NoCommaUrl == <<"data:", "image/png;base64">>

Style(local_id) ==
    [local_id |-> local_id, name |-> local_id, icon |-> <<>>,
     voice_samples |-> << [audio |-> WavUrl, transcript |-> "t"] >>]

SpeakerOf(u) == IF u = "a59cb814" THEN "spk-d" ELSE "spk-x"

\* display names as their rank in string order
NameOf(u) == IF u = "a59cb814" THEN 2 ELSE 1

SpeakerManifest(u, langs, icon) ==
    [uuid |-> SpeakerOf(u), name |-> NameOf(u), supported_languages |-> langs,
     icon |-> icon, styles |-> <<Style(1)>>]

Pkg(fmt, u, ver, mver, arch, spk) ==
    [fmt |-> fmt, uuid |-> u, name |-> NameOf(u), version |-> ver,
     manifest_version |-> mver, model_architecture |-> arch,
     license |-> "", speakers |-> <<spk>>]

GoodPkg(fmt, u, ver) ==
    Pkg(fmt, u, ver, <<"1", "0">>, "Style-Bert-VITS2 (JP-Extra)",
        SpeakerManifest(u, <<"ja">>, IconUrl))

GoodPackages ==
    {GoodPkg(fmt, u, ver) : fmt \in {"AIVMX", "AIVM"}, u \in ModelUuids,
                            ver \in {V100, V120}}

XPacked == GoodPkg("AIVMX", "x-model", V100)

XLegacy == GoodPkg("AIVM", "x-model", V100)

DPacked == GoodPkg("AIVMX", "a59cb814", V100)

XPkg(fmt, mver, arch, langs, icon) ==
    Pkg(fmt, "x-model", V100, mver, arch, SpeakerManifest("x-model", langs, icon))

JpExtra == "Style-Bert-VITS2 (JP-Extra)"

Garbage == XPkg("BAD", <<"1", "0">>, JpExtra, <<"ja">>, IconUrl)

MinorNewer == XPkg("AIVMX", <<"1", "1">>, JpExtra, <<"ja">>, IconUrl)

MajorNewer == XPkg("AIVMX", <<"2", "0">>, JpExtra, <<"ja">>, IconUrl)

OnePart == XPkg("AIVMX", <<"1">>, JpExtra, <<"ja">>, IconUrl)

NonNumeric == XPkg("AIVMX", <<"1", "x">>, JpExtra, <<"ja">>, IconUrl)

OtherArch == XPkg("AIVMX", <<"1", "0">>, "GPT-SoVITS", <<"ja">>, IconUrl)

BadIcon == XPkg("AIVMX", <<"1", "0">>, JpExtra, <<"JA-JP">>, NoCommaUrl)

English == XPkg("AIVMX", <<"1", "0">>, JpExtra, <<"en">>, NoCommaUrl)

\* a package with three speakers: one Japanese, one English, and one that
\* writes its Japanese tag in capitals and has another style index
Trio ==
    [XPacked EXCEPT !.speakers =
        <<SpeakerManifest("x-model", <<"ja">>, IconUrl),
          [uuid |-> "spk-e", name |-> 4, supported_languages |-> <<"en">>,
           icon |-> NoCommaUrl, styles |-> <<Style(1)>>],
          [uuid |-> "spk-y", name |-> 3,
           supported_languages |-> <<"en", "JA">>,
           icon |-> IconUrl, styles |-> <<Style(2)>>]>>]

\* a package whose only speaker is English
Foreign ==
    [DPacked EXCEPT !.speakers =
        <<[uuid |-> "spk-e", name |-> 4, supported_languages |-> <<"en">>,
           icon |-> NoCommaUrl, styles |-> <<Style(1)>>]>>]

DefectPackages ==
    {Garbage, MinorNewer, MajorNewer, OnePart, NonNumeric, OtherArch,
     BadIcon, English}

Packages == GoodPackages \cup DefectPackages

\* what a write that fails part-way leaves behind
Truncated(bytes) == [bytes EXCEPT !.fmt = "BAD"]

NoFile == [absent |-> TRUE]

Path(stem, suffix) == [stem |-> stem, suffix |-> suffix]

FileNames ==
    {Path(u, sfx) : u \in ModelUuids, sfx \in {".aivmx", ".aivm"}}
        \cup {Path("manual", ".aivmx")}

(***************************************************************************)
(* The environment a run is bounded to: the packages offered to install,   *)
(* what downloads serve, what the catalog answers, how writes end, and the *)
(* directories a run starts from.                                          *)
(***************************************************************************)
DirWith(contents) ==
    [p \in FileNames |-> IF p \in DOMAIN contents THEN contents[p] ELSE NoFile]

File(stem, suffix, bytes) == [q \in {Path(stem, suffix)} |-> bytes]

\* many directories and packages; steps recorded without their details
Lifecycle ==
    [detail |-> FALSE,
     history |-> FALSE,
     installs |-> {XPacked, XLegacy, DPacked, Garbage, MinorNewer, OtherArch},
     served |-> {XPacked, DPacked, Garbage},
     catalog |-> {[kind |-> "timeout"], [kind |-> "200", version |-> V120]},
     writes |-> {"ok", "open_failed"},
     loads |-> BOOLEAN,
     urls |-> {[kind |-> "hub_page", uuid |-> "x-model"],
               [kind |-> "hub_page_no_uuid"], [kind |-> "other"]},
     dirs |-> {[p \in FileNames |-> NoFile],
               DirWith(File("x-model", ".aivmx", XPacked)),
               DirWith(File("x-model", ".aivmx", XPacked)
                       @@ File("a59cb814", ".aivmx", DPacked)),
               DirWith(File("manual", ".aivmx", XPacked)
                       @@ File("x-model", ".aivmx",
                               GoodPkg("AIVMX", "x-model", V120))),
               DirWith(File("x-model", ".aivmx", Garbage)),
               DirWith(File("manual", ".aivmx", BadIcon)),
               DirWith(File("x-model", ".aivm", XLegacy)
                       @@ File("manual", ".aivmx", MinorNewer))}]

\* few directories and packages; every step recorded with its details
Operations ==
    [detail |-> TRUE,
     history |-> FALSE,
     installs |-> {XPacked, Garbage},
     served |-> {DPacked},
     catalog |-> {[kind |-> "timeout"]},
     writes |-> {"ok", "open_failed"},
     loads |-> BOOLEAN,
     urls |-> {[kind |-> "hub_page_no_uuid"], [kind |-> "other"]},
     dirs |-> {[p \in FileNames |-> NoFile],
               DirWith(File("x-model", ".aivmx", XPacked)),
               DirWith(File("manual", ".aivmx", XPacked)
                       @@ File("x-model", ".aivmx",
                               GoodPkg("AIVMX", "x-model", V120))),
               DirWith(File("x-model", ".aivm", XLegacy)
                       @@ File("a59cb814", ".aivmx", DPacked))}]

\* two models, one of them installed from the legacy format, and a catalog
\* that answers in every way; every step recorded with its details
Hub ==
    [detail |-> TRUE,
     history |-> FALSE,
     installs |-> {Garbage},
     served |-> {GoodPkg("AIVMX", "x-model", V120)},
     catalog |-> {[kind |-> "timeout"], [kind |-> "request_error"],
                  [kind |-> "404"], [kind |-> "500"],
                  [kind |-> "no_aivmx"], [kind |-> "malformed"],
                  [kind |-> "200", version |-> V100],
                  [kind |-> "200", version |-> V120],
                  [kind |-> "200", version |-> BadVersion]},
     writes |-> {"ok"},
     loads |-> {FALSE},
     urls |-> {[kind |-> "other"]},
     dirs |-> {DirWith(File("x-model", ".aivmx", XPacked)
                       @@ File("a59cb814", ".aivmx", DPacked)),
               DirWith(File("x-model", ".aivm", XLegacy)
                       @@ File("a59cb814", ".aivmx", DPacked))}]

\* two models whose files may go away; every step recorded with its details
Disk ==
    [detail |-> TRUE,
     history |-> FALSE,
     installs |-> {Garbage},
     served |-> {DPacked},
     catalog |-> {[kind |-> "timeout"]},
     writes |-> {"ok"},
     loads |-> {FALSE},
     urls |-> {[kind |-> "other"]},
     dirs |-> {DirWith(File("x-model", ".aivmx", XPacked)
                       @@ File("a59cb814", ".aivmx", DPacked)),
               DirWith(File("manual", ".aivmx", XPacked)
                       @@ File("x-model", ".aivmx",
                               GoodPkg("AIVMX", "x-model", V120))
                       @@ File("a59cb814", ".aivmx", DPacked))}]

\* two models, installs that succeed, and a catalog that may know a newer
\* version; background steps keep the record of the operation before them
Flight ==
    [detail |-> TRUE,
     history |-> TRUE,
     installs |-> {DPacked},
     served |-> {DPacked},
     catalog |-> {[kind |-> "timeout"], [kind |-> "200", version |-> V120]},
     writes |-> {"ok"},
     loads |-> {FALSE},
     urls |-> {[kind |-> "other"]},
     dirs |-> {DirWith(File("x-model", ".aivmx", XPacked)
                       @@ File("a59cb814", ".aivmx", DPacked))}]

\* one or two models, packages of every manifest version and architecture,
\* and writes that may stop part-way; every step recorded with its details
Writes ==
    [detail |-> TRUE,
     history |-> FALSE,
     installs |-> {XPacked, MinorNewer, MajorNewer, OtherArch},
     served |-> {DPacked},
     catalog |-> {[kind |-> "timeout"]},
     writes |-> {"ok", "open_failed", "write_failed"},
     loads |-> {FALSE},
     urls |-> {[kind |-> "hub_page", uuid |-> "x-model"],
               [kind |-> "hub_page_no_uuid"], [kind |-> "other"]},
     dirs |-> {DirWith(File("a59cb814", ".aivmx", DPacked)),
               DirWith(File("x-model", ".aivmx",
                            GoodPkg("AIVMX", "x-model", V120))
                       @@ File("a59cb814", ".aivmx", DPacked))}]

\* a directory with two files of one identity, or with one file each; every
\* step recorded with its details
Racing ==
    [detail |-> TRUE,
     history |-> FALSE,
     installs |-> {Garbage},
     served |-> {DPacked},
     catalog |-> {[kind |-> "timeout"]},
     writes |-> {"ok"},
     loads |-> {TRUE},
     urls |-> {[kind |-> "other"]},
     dirs |-> {DirWith(File("x-model", ".aivmx", XPacked)
                       @@ File("a59cb814", ".aivmx", DPacked)),
               DirWith(File("manual", ".aivmx", XPacked)
                       @@ File("x-model", ".aivmx",
                               GoodPkg("AIVMX", "x-model", V120))
                       @@ File("a59cb814", ".aivmx", DPacked))}]

\* packages with several speakers and languages; every step recorded with
\* its details
Voices ==
    [detail |-> TRUE,
     history |-> FALSE,
     installs |-> {Garbage},
     served |-> {DPacked},
     catalog |-> {[kind |-> "timeout"]},
     writes |-> {"ok"},
     loads |-> {FALSE},
     urls |-> {[kind |-> "other"]},
     dirs |-> {DirWith(File("x-model", ".aivmx", Trio)
                       @@ File("a59cb814", ".aivmx", DPacked)),
               DirWith(File("x-model", ".aivmx", Trio)
                       @@ File("a59cb814", ".aivmx", Foreign)),
               DirWith(File("x-model", ".aivmx", BadIcon)
                       @@ File("a59cb814", ".aivmx", DPacked))}]

\* two models, one of them at the version the catalog knows in some
\* directories, and a catalog that answers every request with that version
Fair ==
    [detail |-> TRUE,
     history |-> FALSE,
     installs |-> {Garbage},
     served |-> {DPacked},
     catalog |-> {[kind |-> "200", version |-> V120]},
     writes |-> {"ok"},
     loads |-> {FALSE},
     urls |-> {[kind |-> "other"]},
     dirs |-> {DirWith(File("x-model", ".aivmx",
                            GoodPkg("AIVMX", "x-model", V120))
                       @@ File("a59cb814", ".aivmx", DPacked)),
               DirWith(File("x-model", ".aivmx", XPacked)
                       @@ File("a59cb814", ".aivmx", DPacked)),
               DirWith(File("manual", ".aivmx", XPacked)
                       @@ File("x-model", ".aivmx",
                               GoodPkg("AIVMX", "x-model", V120))
                       @@ File("a59cb814", ".aivmx", DPacked))}]

Environment ==
    CASE env = "lifecycle" -> Lifecycle
      [] env = "fair" -> Fair
      [] env = "voices" -> Voices
      [] env = "racing" -> Racing
      [] env = "writes" -> Writes
      [] env = "operations" -> Operations
      [] env = "disk" -> Disk
      [] env = "flight" -> Flight
      [] OTHER -> Hub

EmptyDir == [p \in FileNames |-> NoFile]

Present(fs) == {p \in FileNames : fs[p] # NoFile}

(***************************************************************************)
(* get_installed_aivm_infos: the directory scan.                           *)
(***************************************************************************)
HasComma(data_url) == \E i \in DOMAIN data_url : data_url[i] = ","

FirstComma(data_url) ==
    CHOOSE i \in DOMAIN data_url :
        data_url[i] = "," /\ \A j \in 1..(i - 1) : data_url[j] # ","

extract_base64_from_data_url(data_url) ==
    IF data_url = <<>> THEN Raise(ValueError)
    ELSE IF data_url[1] # "data:" THEN Raise(ValueError)
    ELSE IF HasComma(data_url)
         THEN Return(SubSeq(data_url, FirstComma(data_url) + 1, Len(data_url)))
         ELSE Raise(ValueError)

\* str.lower() on the language tags in use
Lower(lang) ==
    IF lang = "JA-JP" THEN "ja-jp" ELSE IF lang = "JA" THEN "ja" ELSE lang

\* int() on the parts of a manifest version
IntOf(text) ==
    IF text = "0" THEN Return(0)
    ELSE IF text = "1" THEN Return(1)
    ELSE IF text = "2" THEN Return(2)
    ELSE Raise(ValueError)

\* aivmlib.read_aivmx_metadata for .aivmx, aivmlib.read_aivm_metadata otherwise
ReadBySuffix(path, bytes) ==
    IF path.suffix = ".aivmx" THEN bytes.fmt = "AIVMX" ELSE bytes.fmt = "AIVM"

ManifestOf(bytes) ==
    [uuid |-> bytes.uuid, name |-> bytes.name, version |-> bytes.version,
     manifest_version |-> bytes.manifest_version,
     model_architecture |-> bytes.model_architecture,
     license |-> bytes.license, speakers |-> bytes.speakers]

\* the tags are compared as they are written
SupportsJapaneseExact(speaker_manifest) ==
    \E i \in DOMAIN speaker_manifest.supported_languages :
        speaker_manifest.supported_languages[i] \in {"ja", "ja-jp"}
SupportsJapanese(speaker_manifest) ==
    LET supported_langs ==
            {Lower(speaker_manifest.supported_languages[i]) :
                 i \in DOMAIN speaker_manifest.supported_languages}
    IN  \E lang \in {"ja", "ja-jp"} : lang \in supported_langs

\* one style of a speaker: its SpeakerStyle and StyleInfo, or the error raised
BuildStyle(style_manifest, speaker_uuid, speaker_icon) ==
    LET style_id ==
            local_style_id_to_style_id(style_manifest.local_id, speaker_uuid)
        icon == IF style_manifest.icon # <<>>
                THEN extract_base64_from_data_url(style_manifest.icon)
                ELSE Return(speaker_icon)
        samples == [i \in DOMAIN style_manifest.voice_samples |->
                       extract_base64_from_data_url(
                           style_manifest.voice_samples[i].audio)]
    IN  IF Raised(style_id) THEN style_id
        ELSE IF Raised(icon) THEN icon
        ELSE IF \E i \in DOMAIN samples : Raised(samples[i])
             THEN Raise(ValueError)
        ELSE Return([speaker_style |->
                         [id |-> style_id.returned,
                          name |-> style_manifest.name, type |-> "talk"],
                     style_info |->
                         [id |-> style_id.returned, icon |-> icon.returned]])

\* one speaker of a manifest: its LibrarySpeaker, or the error raised
RECURSIVE BuildStyles(_, _, _, _)
\* the styles loop from style i on, appending to acc
BuildStyles(speaker_manifest, speaker_icon, i, acc) ==
    IF i > Len(speaker_manifest.styles) THEN Return(acc)
    ELSE Let(BuildStyle(speaker_manifest.styles[i], speaker_manifest.uuid,
                        speaker_icon),
             LAMBDA st :
                 IF Raised(st) THEN st
                 ELSE BuildStyles(speaker_manifest, speaker_icon, i + 1,
                                  Append(acc, st.returned)))

BuildSpeaker(aivm_manifest, speaker_manifest) ==
    LET speaker_uuid == speaker_manifest.uuid
        speaker_icon == extract_base64_from_data_url(speaker_manifest.icon)
    IN  IF Raised(speaker_icon) THEN speaker_icon
        ELSE Let(BuildStyles(speaker_manifest, speaker_icon.returned, 1, <<>>),
                 LAMBDA built :
                     IF Raised(built) THEN built
                     ELSE Return(
            [speaker |->
                 [speaker_uuid |-> speaker_uuid,
                  name |-> speaker_manifest.name,
                  version |-> aivm_manifest.version,
                  styles |-> [i \in DOMAIN built.returned |->
                                 built.returned[i].speaker_style]],
             speaker_info |->
                 [policy |-> aivm_manifest.license,
                  portrait |-> speaker_icon.returned,
                  style_infos |-> [i \in DOMAIN built.returned |->
                                      built.returned[i].style_info]]]))

RECURSIVE BuildSpeakers(_, _, _)
\* the speakers loop from speaker i on, appending to acc
BuildSpeakers(aivm_manifest, i, acc) ==
    IF i > Len(aivm_manifest.speakers) THEN Return(acc)
    ELSE LET speaker_manifest == aivm_manifest.speakers[i]
         IN  IF ~SupportsJapanese(speaker_manifest)
             THEN BuildSpeakers(aivm_manifest, i + 1, acc)
             ELSE Let(BuildSpeaker(aivm_manifest, speaker_manifest),
                      LAMBDA sp :
                          IF Raised(sp) THEN sp
                          ELSE BuildSpeakers(aivm_manifest, i + 1,
                                             Append(acc, sp.returned)))

Keys(infos) == {infos[i].manifest.uuid : i \in DOMAIN infos}

\* the check for an identity already indexed is never true
AlreadyInstalledMut(aivm_infos, aivm_uuid) == FALSE
AlreadyInstalled(aivm_infos, aivm_uuid) == aivm_uuid \in Keys(aivm_infos)

Lookup(infos, aivm_uuid) ==
    infos[CHOOSE i \in DOMAIN infos : infos[i].manifest.uuid = aivm_uuid]

\* the body of the per-file loop: the dict after this file, or the error raised
ScanFile(aivm_infos, aivm_file_path, fs) ==
    LET bytes == fs[aivm_file_path]
        aivm_manifest == ManifestOf(bytes)
        manifest_version_parts == aivm_manifest.manifest_version
        numbers == [i \in DOMAIN manifest_version_parts |->
                       IntOf(manifest_version_parts[i])]
        supported_major == IntOf(SUPPORTED_MANIFEST_VERSIONS[1][1]).returned
    IN  IF ~ReadBySuffix(aivm_file_path, bytes) THEN Return(aivm_infos)
        ELSE IF AlreadyInstalled(aivm_infos, aivm_manifest.uuid)
             THEN Return(aivm_infos)
        ELSE IF Len(manifest_version_parts) # 2 THEN Return(aivm_infos)
        ELSE IF \E i \in DOMAIN numbers : Raised(numbers[i])
             THEN Raise(ValueError)
        ELSE IF numbers[1].returned # supported_major THEN Return(aivm_infos)
        ELSE IF aivm_manifest.model_architecture
                    \notin SUPPORTED_MODEL_ARCHITECTURES
             THEN Return(aivm_infos)
        ELSE LET speakers == BuildSpeakers(aivm_manifest, 1, <<>>)
             IN  IF Raised(speakers) THEN speakers
                 ELSE Return(Append(aivm_infos,
                        [is_loaded |-> FALSE,
                         is_update_available |-> FALSE,
                         latest_version |-> aivm_manifest.version,
                         file_path |-> aivm_file_path,
                         manifest |-> aivm_manifest,
                         speakers |-> speakers.returned]))

RECURSIVE ScanFiles(_, _, _, _)
\* the loop over aivm_file_paths from index i on
ScanFiles(aivm_file_paths, i, aivm_infos, fs) ==
    IF i > Len(aivm_file_paths) THEN Return(aivm_infos)
    ELSE Let(ScanFile(aivm_infos, aivm_file_paths[i], fs),
             LAMBDA r :
                 IF Raised(r) THEN r
                 ELSE ScanFiles(aivm_file_paths, i + 1, r.returned, fs))

RECURSIVE InsertByName(_, _)
InsertByName(sorted, info) ==
    IF sorted = <<>> THEN <<info>>
    ELSE IF sorted[Len(sorted)].manifest.name <= info.manifest.name
         THEN Append(sorted, info)
         ELSE Append(InsertByName(SubSeq(sorted, 1, Len(sorted) - 1), info),
                     sorted[Len(sorted)])

RECURSIVE SortByName(_)
\* the dict keeps the order in which the files were indexed
SortByNameMut(infos) == infos
\* sorted(..., key=name): stable
SortByName(infos) ==
    IF infos = <<>> THEN <<>>
    ELSE Let(SortByName(SubSeq(infos, 1, Len(infos) - 1)),
             LAMBDA sorted : InsertByName(sorted, infos[Len(infos)]))

CacheIsNone(c) == "infos" \notin DOMAIN c

NoCache == [none |-> TRUE]

\* every new entry starts unloaded
CarryLoadStateDropped(sorted_aivm_infos, c) == sorted_aivm_infos
\* the load state of the previous cache moved onto the new entries
CarryLoadState(sorted_aivm_infos, c) ==
    IF CacheIsNone(c) THEN sorted_aivm_infos
    ELSE [i \in DOMAIN sorted_aivm_infos |->
             LET aivm_info == sorted_aivm_infos[i]
             IN  IF aivm_info.manifest.uuid \in Keys(c.infos)
                 THEN [aivm_info EXCEPT !.is_loaded =
                          Lookup(c.infos, aivm_info.manifest.uuid).is_loaded]
                 ELSE aivm_info]

\* entries of the previous cache that the scan did not find are kept
RescanMerged(aivm_file_paths, fs, c) ==
    Let(ScanFiles(aivm_file_paths, 1, <<>>, fs),
        LAMBDA scanned :
            IF Raised(scanned) THEN scanned
            ELSE Return(CarryLoadState(SortByName(
                     scanned.returned
                         \o (IF CacheIsNone(c) THEN <<>>
                             ELSE SelectSeq(c.infos,
                                      LAMBDA e : e.manifest.uuid
                                          \notin Keys(scanned.returned)))),
                     c)))
\* the dict a rescan publishes, or the error it raises before publishing
Rescan(aivm_file_paths, fs, c) ==
    Let(ScanFiles(aivm_file_paths, 1, <<>>, fs),
        LAMBDA scanned :
            IF Raised(scanned) THEN scanned
            ELSE Return(CarryLoadState(SortByName(scanned.returned), c)))

(***************************************************************************)
(* Lookups in the cache, in the order of their loops.                      *)
(***************************************************************************)
RECURSIVE Flatten(_)
Flatten(seqs) ==
    IF seqs = <<>> THEN <<>> ELSE Head(seqs) \o Flatten(Tail(seqs))

\* only the first entry of the cache is looked at
get_aivm_info_first(infos, aivm_uuid) ==
    IF infos # <<>> /\ infos[1].manifest.uuid = aivm_uuid
    THEN Return(infos[1])
    ELSE Raise("404")
\* the first entry whose manifest has the identity, or 404
get_aivm_info(infos, aivm_uuid) ==
    LET hits == SelectSeq(infos, LAMBDA aivm_info :
                              aivm_info.manifest.uuid = aivm_uuid)
    IN  IF hits # <<>> THEN Return(hits[1]) ELSE Raise("404")

\* the speakers of the entries, in the order the two loops visit them
CachedSpeakers(infos) ==
    Flatten([i \in DOMAIN infos |->
                [j \in DOMAIN infos[i].speakers |->
                    [aivm_info |-> infos[i],
                     aivm_info_speaker |-> infos[i].speakers[j]]]])

\* the speaker_info of the first cached speaker with the uuid, or 404
get_speaker_info(infos, speaker_uuid) ==
    LET hits == SelectSeq(CachedSpeakers(infos), LAMBDA h :
                    h.aivm_info_speaker.speaker.speaker_uuid = speaker_uuid)
    IN  IF hits # <<>> THEN Return(hits[1].aivm_info_speaker.speaker_info)
        ELSE Raise("404")

\* the styles of the cached speakers, in the order the three loops visit them
CachedStyles(infos) ==
    Flatten([i \in DOMAIN CachedSpeakers(infos) |->
                LET h == CachedSpeakers(infos)[i]
                IN  [k \in DOMAIN h.aivm_info_speaker.speaker.styles |->
                        [aivm_info |-> h.aivm_info,
                         aivm_info_speaker |-> h.aivm_info_speaker,
                         aivm_info_speaker_style |->
                             h.aivm_info_speaker.speaker.styles[k]]]])

\* the speakers and styles of a manifest, in the order the loops visit them
ManifestStyles(aivm_manifest) ==
    Flatten([i \in DOMAIN aivm_manifest.speakers |->
                [k \in DOMAIN aivm_manifest.speakers[i].styles |->
                    [aivm_manifest_speaker |-> aivm_manifest.speakers[i],
                     aivm_manifest_style |->
                         aivm_manifest.speakers[i].styles[k]]]])

\* the first speaker and style of the manifest are returned
get_aivm_manifest_from_style_id_first(infos, style_id) ==
    LET hits == SelectSeq(CachedStyles(infos), LAMBDA h :
                    h.aivm_info_speaker_style.id = style_id)
    IN  IF hits # <<>>
        THEN Return(<<hits[1].aivm_info.manifest,
                      hits[1].aivm_info.manifest.speakers[1],
                      hits[1].aivm_info.manifest.speakers[1].styles[1]>>)
        ELSE Raise("404")
\* manifest, speaker and style of the first cached style with the id whose
\* manifest has the speaker and a style with the decoded local id, or 404
get_aivm_manifest_from_style_id(infos, style_id) ==
    LET local_style_id == style_id_to_local_style_id(style_id)
        matches(h) ==
            SelectSeq(ManifestStyles(h.aivm_info.manifest), LAMBDA ms :
                /\ ms.aivm_manifest_speaker.uuid
                       = h.aivm_info_speaker.speaker.speaker_uuid
                /\ ms.aivm_manifest_style.local_id = local_style_id)
        hits == SelectSeq(CachedStyles(infos), LAMBDA h :
                    /\ h.aivm_info_speaker_style.id = style_id
                    /\ matches(h) # <<>>)
    IN  IF hits # <<>>
        THEN Return(<<hits[1].aivm_info.manifest,
                      matches(hits[1])[1].aivm_manifest_speaker,
                      matches(hits[1])[1].aivm_manifest_style>>)
        ELSE Raise("404")

\* for the first cached speaker with the name: the id of the first style of
\* the first speaker of its entry; 500 when no cached speaker has the name
get_style_id_from_model_name(infos, model_name) ==
    LET hits == SelectSeq(CachedSpeakers(infos), LAMBDA h :
                    h.aivm_info_speaker.speaker.name = model_name)
    IN  IF hits # <<>>
        THEN Return(hits[1].aivm_info.speakers[1].speaker.styles[1].id)
        ELSE Raise("500")

Perms(S) ==
    {f \in [1..Cardinality(S) -> S] :
        \A i, j \in 1..Cardinality(S) : i # j => f[i] # f[j]}

\* glob("*.aivmx") + glob("*.aivm"), each in the order the directory gives
GlobOrders(fs) ==
    {a \o b : a \in Perms({p \in Present(fs) : p.suffix = ".aivmx"}),
              b \in Perms({p \in Present(fs) : p.suffix = ".aivm"})}

(***************************************************************************)
(* check_aivm_updates_from_hub: reconciliation with the catalog.           *)
(***************************************************************************)
\* Version.parse accepts major.minor.patch
Parseable(version) == Len(version) = 3

\* an equal version counts as greater
SemverGreaterMut(a, b) ==
    \/ a[1] > b[1]
    \/ a[1] = b[1] /\ a[2] > b[2]
    \/ a[1] = b[1] /\ a[2] = b[2] /\ a[3] >= b[3]
\* Version.__gt__
SemverGreater(a, b) ==
    \/ a[1] > b[1]
    \/ a[1] = b[1] /\ a[2] > b[2]
    \/ a[1] = b[1] /\ a[2] = b[2] /\ a[3] > b[3]

\* an answer without a version forgets what an earlier answer said
fetch_latest_version_forgets(aivm_info, outcome) ==
    IF outcome.kind # "200"
    THEN [aivm_info EXCEPT !.latest_version = aivm_info.manifest.version,
                           !.is_update_available = FALSE]
    ELSE LET updated == [aivm_info EXCEPT !.latest_version = outcome.version]
         IN  IF ~Parseable(aivm_info.manifest.version) THEN updated
             ELSE IF ~Parseable(updated.latest_version) THEN updated
             ELSE [updated EXCEPT !.is_update_available =
                      SemverGreater(updated.latest_version,
                                    aivm_info.manifest.version)]
\* the entry after its request ended with the given outcome: a 404, another
\* status, a timeout, a transport error, a body without an AIVMX file or a
\* body that lacks a field return or raise before anything is assigned
fetch_latest_version(aivm_info, outcome) ==
    IF outcome.kind # "200" THEN aivm_info
    ELSE LET updated == [aivm_info EXCEPT !.latest_version = outcome.version]
         IN  IF ~Parseable(aivm_info.manifest.version) THEN updated
             ELSE IF ~Parseable(updated.latest_version) THEN updated
             ELSE [updated EXCEPT !.is_update_available =
                      SemverGreater(updated.latest_version,
                                    aivm_info.manifest.version)]

\* the outcome of one request lands on every entry
ApplyOutcomeAll(infos, aivm_uuid, outcome) ==
    [i \in DOMAIN infos |-> fetch_latest_version(infos[i], outcome)]
\* each task works on the entry it was created for
ApplyOutcome(infos, aivm_uuid, outcome) ==
    [i \in DOMAIN infos |->
        IF infos[i].manifest.uuid = aivm_uuid
        THEN fetch_latest_version(infos[i], outcome)
        ELSE infos[i]]

(***************************************************************************)
(* Steps.  last describes the step just taken.                             *)
(***************************************************************************)
\* background passes that may be in flight at once
MaxPending == 1

NoTasks == [u \in ModelUuids |-> 0]

NoScan == [scanned |-> FALSE, order |-> <<>>]

Scan(aivm_file_paths) == [scanned |-> TRUE, order |-> aivm_file_paths]

NoArg == [none |-> TRUE]

\* the request that ended in a step, and how it ended
Fetched(aivm_uuid, outcome) ==
    IF Environment.detail THEN [uuid |-> aivm_uuid, outcome |-> outcome]
    ELSE NoArg

\* the package an install works on, next to the arguments of the operation
Installing(arg, bytes) ==
    [of |-> arg, uuid |-> bytes.uuid, fmt |-> bytes.fmt,
     version |-> bytes.version,
     manifest_version |-> bytes.manifest_version,
     model_architecture |-> bytes.model_architecture]

\* a call of an operation, up to its return or to the wait for its fetches
Step(op, arg, status, scan, recon) ==
    IF Environment.detail
    THEN [kind |-> "call", op |-> op, arg |-> arg, status |-> status,
          scan |-> scan, recon |-> recon, fetch |-> NoArg, after |-> NoArg]
    ELSE [kind |-> "call", op |-> "none", arg |-> NoArg,
          status |-> IF status = "running" THEN "running" ELSE "ok",
          scan |-> NoScan, recon |-> "none", fetch |-> NoArg, after |-> NoArg]

\* the operation that returned last, where the environment keeps history
Finished(step) ==
    IF ~Environment.history THEN NoArg
    ELSE IF step.op # "none"
         THEN [op |-> step.op, arg |-> step.arg, status |-> step.status]
         ELSE step.after

\* a step of a background thread; it keeps what a running operation recorded
BgStep(fetch) ==
    IF syncTasks # {}
    THEN [last EXCEPT !.kind = "bg", !.scan = NoScan, !.fetch = fetch]
    ELSE [kind |-> "bg", op |-> "none", arg |-> NoArg, status |-> "ok",
          scan |-> NoScan, recon |-> "none", fetch |-> fetch,
          after |-> Finished(last)]

\* an exception leaves __init__ only while it runs
AfterRaise == IF phase = "ready" THEN "ready" ELSE "raised"

\* the operation fails before it touches the directory or the cache
Fail(op, arg, status, c, d) ==
    /\ last' = Step(op, arg, status, NoScan, "none")
    /\ cache' = c
    /\ dispatched' = d
    /\ phase' = AfterRaise
    /\ UNCHANGED <<files, tasks, syncTasks>>

\* the non-waiting call hands the pass to a thread and goes on
WaitsAlways(wait_for_update_check) == TRUE
Waits(wait_for_update_check) == wait_for_update_check

\* a failure to start the pass reaches the caller
StartStatusUncaught(startOk) == IF startOk THEN "ok" ELSE "500"
\* try / except Exception around the start of the pass
StartStatus(startOk) == "ok"

\* get_installed_aivm_infos from the directory listing on, over directory fs,
\* previous cache c and d background passes not yet started
ScanAndPublish(op, arg, fs, c, d, wait) ==
    \E aivm_file_paths \in GlobOrders(fs),
       startOk \in IF wait THEN {TRUE} ELSE BOOLEAN :
        \E r \in {Rescan(aivm_file_paths, fs, c)} :
            /\ files' = fs
            /\ IF Raised(r)
               THEN /\ last' = Step(op, arg, ValueError,
                                    Scan(aivm_file_paths), "none")
                    /\ cache' = c
                    /\ dispatched' = d
                    /\ phase' = AfterRaise
                    /\ UNCHANGED <<tasks, syncTasks>>
               ELSE /\ cache' = [infos |-> r.returned]
                    /\ tasks' = NoTasks
                    /\ IF Waits(wait) /\ startOk /\ r.returned # <<>>
                       THEN /\ syncTasks' = Keys(r.returned)
                            /\ dispatched' = d
                            /\ phase' = IF phase = "ready" THEN "ready"
                                        ELSE "constructing"
                            /\ last' = Step(op, arg, "running",
                                            Scan(aivm_file_paths), "waited")
                       ELSE /\ syncTasks' = {}
                            /\ phase' = "ready"
                            /\ IF Waits(wait)
                               THEN /\ dispatched' = d
                                    /\ last' = Step(op, arg,
                                            StartStatus(startOk),
                                            Scan(aivm_file_paths),
                                            IF startOk THEN "waited"
                                            ELSE "start_failed")
                               ELSE /\ d < MaxPending
                                    /\ dispatched' =
                                           IF startOk THEN d + 1 ELSE d
                                    /\ last' = Step(op, arg,
                                            StartStatus(startOk),
                                            Scan(aivm_file_paths),
                                            IF startOk THEN "spawned"
                                            ELSE "start_failed")

\* install_aivm over cache c (never None here: __init__ has scanned)
InstallBytes(op, of, c, d, bytes) ==
    LET aivm_manifest == ManifestOf(bytes)
        arg == Installing(of, bytes)
        previous == aivm_manifest.uuid \in Keys(c.infos)
        aivm_file_path ==
            IF previous THEN Lookup(c.infos, aivm_manifest.uuid).file_path
            ELSE Path(aivm_manifest.uuid,
                      IF bytes.fmt = "AIVMX" THEN ".aivmx" ELSE ".aivm")
    IN  IF bytes.fmt \notin {"AIVMX", "AIVM"} THEN Fail(op, arg, "422", c, d)
        ELSE IF \A i \in DOMAIN SUPPORTED_MANIFEST_VERSIONS :
                    SUPPORTED_MANIFEST_VERSIONS[i]
                        # aivm_manifest.manifest_version
             THEN Fail(op, arg, "422", c, d)
        ELSE IF aivm_manifest.model_architecture
                    \notin SUPPORTED_MODEL_ARCHITECTURES
             THEN Fail(op, arg, "422", c, d)
        ELSE \E wr \in Environment.writes :
                 IF wr = "open_failed" THEN Fail(op, arg, "500", c, d)
                 ELSE IF wr = "write_failed"
                 THEN /\ last' = Step(op, arg, "500", NoScan, "none")
                      /\ files' = [files EXCEPT
                                      ![aivm_file_path] = Truncated(bytes)]
                      /\ cache' = c
                      /\ dispatched' = d
                      /\ phase' = AfterRaise
                      /\ UNCHANGED <<tasks, syncTasks>>
                 ELSE ScanAndPublish(op, arg,
                          [files EXCEPT ![aivm_file_path] = bytes], c, d, TRUE)

\* httpx.get(url).raise_for_status(): an error, or the bytes served
DownloadOutcomes ==
    {[kind |-> "http_error"]}
        \cup {[kind |-> "200", content |-> b] : b \in Packages}

DownloadApiUrl(aivm_uuid) == [kind |-> "download_api", uuid |-> aivm_uuid]

\* every URL is downloaded
InvalidHubUrlMut(url) == FALSE
\* a URL of a model page of AivisHub in which no uuid is found
InvalidHubUrl(url) == url.kind = "hub_page_no_uuid"

InstallUrl(op, arg, c, d, url) ==
    IF InvalidHubUrl(url) THEN Fail(op, arg, "422", c, d)
    ELSE \E dl \in {o \in DownloadOutcomes :
                         o.kind = "200" => o.content \in Environment.served} :
             IF dl.kind # "200" THEN Fail(op, arg, "500", c, d)
             ELSE InstallBytes(op, arg, c, d, dl.content)

Idle == phase = "ready" /\ syncTasks = {}

\* AivmManager.__init__
Construct ==
    /\ phase = "new"
    /\ UNCHANGED <<codecVars, env, scans>>
    /\ \E aivm_file_paths \in GlobOrders(files), startOk \in BOOLEAN :
           \E r \in {Rescan(aivm_file_paths, files, cache)},
              d \in {IF startOk THEN 1 ELSE 0} :
               IF Raised(r)
               THEN /\ last' = Step("construct", NoArg, ValueError,
                                    Scan(aivm_file_paths), "none")
                    /\ phase' = "raised"
                    /\ UNCHANGED <<files, cache, dispatched, tasks, syncTasks>>
               ELSE IF r.returned # <<>>
               THEN /\ last' = Step("construct", NoArg, "ok",
                                    Scan(aivm_file_paths),
                                    IF startOk THEN "spawned"
                                    ELSE "start_failed")
                    /\ phase' = "ready"
                    /\ cache' = [infos |-> r.returned]
                    /\ dispatched' = d
                    /\ UNCHANGED <<files, tasks, syncTasks>>
               ELSE InstallUrl("construct", NoArg, [infos |-> <<>>], d,
                               DownloadApiUrl(DEFAULT_MODEL_UUIDS[1]))

\* a cache is returned whenever there is one
UseCacheMut(c, force) == ~CacheIsNone(c)
\* the cache is returned as it is when there is one and no rescan is forced
UseCache(c, force) == ~CacheIsNone(c) /\ ~force

\* get_installed_aivm_infos(force, wait_for_update_check) called on a manager
ListEntries(force, wait) ==
    /\ Idle
    /\ UNCHANGED <<codecVars, env, scans>>
    /\ IF UseCache(cache, force)
       THEN /\ last' = Step("list", [force |-> force, wait |-> wait], "ok",
                            NoScan, "none")
            /\ UNCHANGED <<phase, files, cache, dispatched, tasks, syncTasks>>
       ELSE ScanAndPublish("list", [force |-> force, wait |-> wait],
                           files, cache, dispatched, wait)

\* the state is set on every entry
update_model_load_state_all(c, aivm_uuid, is_loaded) ==
    IF ~CacheIsNone(c) /\ aivm_uuid \in Keys(c.infos)
    THEN [infos |-> [i \in DOMAIN c.infos |->
                        [c.infos[i] EXCEPT !.is_loaded = is_loaded]]]
    ELSE c
\* the cache after update_model_load_state
update_model_load_state(c, aivm_uuid, is_loaded) ==
    IF ~CacheIsNone(c) /\ aivm_uuid \in Keys(c.infos)
    THEN [infos |-> [i \in DOMAIN c.infos |->
                        IF c.infos[i].manifest.uuid = aivm_uuid
                        THEN [c.infos[i] EXCEPT !.is_loaded = is_loaded]
                        ELSE c.infos[i]]]
    ELSE c

\* update_model_load_state
SetLoadState(aivm_uuid, is_loaded) ==
    /\ Idle
    /\ UNCHANGED <<codecVars, env, scans>>
    /\ last' = Step("set_load_state",
                    [uuid |-> aivm_uuid, is_loaded |-> is_loaded], "ok",
                    NoScan, "none")
    /\ cache' = update_model_load_state(cache, aivm_uuid, is_loaded)
    /\ UNCHANGED <<phase, files, dispatched, tasks, syncTasks>>

\* install_aivm
Install(bytes) ==
    /\ Idle
    /\ UNCHANGED <<codecVars, env, scans>>
    /\ InstallBytes("install", NoArg, cache, dispatched, bytes)

\* install_aivm_from_url
InstallFromUrl(url) ==
    /\ Idle
    /\ UNCHANGED <<codecVars, env, scans>>
    /\ InstallUrl("install_from_url", [url |-> url], cache, dispatched,
                  IF url.kind = "hub_page" THEN DownloadApiUrl(url.uuid)
                  ELSE url)

\* the update goes ahead whatever the flag says
NoUpdateMut(aivm_info) == FALSE
NoUpdate(aivm_info) == ~aivm_info.is_update_available

\* update_aivm
Update(aivm_uuid) ==
    /\ Idle
    /\ UNCHANGED <<codecVars, env, scans>>
    /\ IF aivm_uuid \notin Keys(cache.infos)
       THEN Fail("update", [uuid |-> aivm_uuid], "404", cache, dispatched)
       ELSE IF NoUpdate(Lookup(cache.infos, aivm_uuid))
       THEN Fail("update", [uuid |-> aivm_uuid], "422", cache, dispatched)
       ELSE InstallUrl("update", [uuid |-> aivm_uuid], cache, dispatched,
                       DownloadApiUrl(aivm_uuid))

\* the one-entry check lets a single entry go
LastEntryMut(installed_aivm_infos) == Len(installed_aivm_infos) < 1
LastEntry(installed_aivm_infos) == Len(installed_aivm_infos) <= 1

\* a missing file makes unlink raise
UnlinkStrict(fs, aivm_file_path) ==
    IF fs[aivm_file_path] = NoFile THEN Raise("FileNotFoundError")
    ELSE Return([fs EXCEPT ![aivm_file_path] = NoFile])
\* Path.unlink(missing_ok=True)
Unlink(fs, aivm_file_path) == Return([fs EXCEPT ![aivm_file_path] = NoFile])

\* uninstall_aivm
Uninstall(aivm_uuid) ==
    /\ Idle
    /\ UNCHANGED <<codecVars, env, scans>>
    /\ IF aivm_uuid \notin Keys(cache.infos)
       THEN Fail("uninstall", [uuid |-> aivm_uuid], "404", cache, dispatched)
       ELSE IF LastEntry(cache.infos)
       THEN Fail("uninstall", [uuid |-> aivm_uuid], "400", cache, dispatched)
       ELSE LET aivm_file_path == Lookup(cache.infos, aivm_uuid).file_path
                arg == [uuid |-> aivm_uuid,
                        existed |-> files[aivm_file_path] # NoFile]
            IN  \E r \in {Unlink(files, aivm_file_path)} :
                    IF Raised(r)
                    THEN Fail("uninstall", arg, r.raised, cache, dispatched)
                    ELSE ScanAndPublish("uninstall", arg, r.returned,
                                        cache, dispatched, TRUE)

\* a file of the install directory is removed from outside the engine
ExternalRemove(aivm_file_path) ==
    /\ Idle
    /\ files[aivm_file_path] # NoFile
    /\ files' = [files EXCEPT ![aivm_file_path] = NoFile]
    /\ last' = [kind |-> "env", op |-> "none", arg |-> NoArg, status |-> "ok",
                scan |-> NoScan, recon |-> "none", fetch |-> NoArg, after |-> NoArg]
    /\ UNCHANGED <<codecVars, env, scans, phase, cache, dispatched, tasks,
                   syncTasks>>

\* what a lookup recorded: the key it was given and what it gave back
Looked(key, result) == [key |-> key, result |-> result]

\* the status of a lookup that raised 404 or returned
LookupStatus(result) == IF Raised(result) THEN result.raised ELSE "ok"

\* a lookup on a manager that has a cache: its call of
\* get_installed_aivm_infos() returns the cache as it is
LookupCall(op, key, result) ==
    /\ Idle
    /\ UseCache(cache, FALSE)
    /\ last' = Step(op, Looked(key, result), LookupStatus(result),
                    NoScan, "none")
    /\ UNCHANGED <<codecVars, env, scans, phase, files, cache, dispatched,
                   tasks, syncTasks>>

\* get_aivm_info
GetAivmInfo(aivm_uuid) ==
    LookupCall("get_aivm_info", aivm_uuid,
               get_aivm_info(cache.infos, aivm_uuid))

\* get_speaker_info
GetSpeakerInfo(speaker_uuid) ==
    LookupCall("get_speaker_info", speaker_uuid,
               get_speaker_info(cache.infos, speaker_uuid))

\* get_aivm_manifest_from_style_id
GetAivmManifestFromStyleId(style_id) ==
    LookupCall("get_aivm_manifest_from_style_id", style_id,
               get_aivm_manifest_from_style_id(cache.infos, style_id))

\* get_style_id_from_model_name
GetStyleIdFromModelName(model_name) ==
    LookupCall("get_style_id_from_model_name", model_name,
               get_style_id_from_model_name(cache.infos, model_name))

\* the speakers of the packages with several speakers
VoiceSpeakers == SpeakerUuids \cup {"spk-e", "spk-y"}

\* the names of these speakers as ranks, and the rank of no speaker
VoiceNames == 1..5

\* the style ids of these speakers
VoiceStyleIdKeys ==
    {local_style_id_to_style_id(local_id, speaker_uuid).returned :
        local_id \in {1, 2}, speaker_uuid \in VoiceSpeakers}

\* the style ids looked up: those of both speakers, and one of no style
StyleIdKeys ==
    {local_style_id_to_style_id(local_id, speaker_uuid).returned :
        local_id \in {1, 2}, speaker_uuid \in SpeakerUuids}

(***************************************************************************)
(* synthesis_from_text: the handler that synthesizes with the model of a   *)
(* speaker name.  The engine is outside the registry: an attempt of it     *)
(* returns a wave, raises torch.cuda.OutOfMemoryError or raises something  *)
(* else, and it reports the models it loads and unloads to                 *)
(* update_model_load_state.                                                *)
(***************************************************************************)
\* one attempt more
SynthesisAttemptsMut == 4 + 1
\* for _ in range(4)
SynthesisAttempts == 4

EngineOutcomes == {"ok", "oom", "error"}

\* what the engine would answer to its first, second, ... call
EngineAnswers == [1..(SynthesisAttempts + 1) -> EngineOutcomes]

\* engine.synthesize_wave_without_accent_phrases that returns: the model of
\* the style is loaded
synthesize_wave_without_accent_phrases(c, style_id) ==
    LET found == get_aivm_manifest_from_style_id(c.infos, style_id)
    IN  IF Raised(found) THEN c
        ELSE update_model_load_state(c, found.returned[1].uuid, TRUE)

\* engine.unload_oldest_model: of the loaded models, the one the engine
\* loaded first is unloaded; nothing happens when none is loaded
unload_oldest_model(c, load_order) ==
    LET loaded == SelectSeq(load_order, LAMBDA aivm_uuid :
                      /\ aivm_uuid \in Keys(c.infos)
                      /\ Lookup(c.infos, aivm_uuid).is_loaded)
    IN  IF loaded = <<>> THEN c
        ELSE update_model_load_state(c, loaded[1], FALSE)

\* a call the handler made of the engine, and how it ended
EngineCall(name, result) == [call |-> name, result |-> result]

\* the loop of the handler from its k-th round on, after n calls of the engine
RECURSIVE SynthesisLoop(_, _, _, _, _, _)
SynthesisLoop(c, style_id, answers, load_order, k, events) ==
    IF k > SynthesisAttempts
    THEN [wave |-> "none", events |-> events, cache |-> c]
    ELSE IF answers[k] = "ok"
    THEN [wave |-> "wave",
          events |-> Append(events, EngineCall("synthesize", "ok")),
          cache |-> synthesize_wave_without_accent_phrases(c, style_id)]
    ELSE IF answers[k] = "oom"
    THEN SynthesisLoop(unload_oldest_model(c, load_order), style_id, answers,
                       load_order, k + 1,
                       events \o <<EngineCall("synthesize", "oom"),
                                   EngineCall("unload_oldest_model", "ok")>>)
    ELSE [wave |-> "raised",
          events |-> Append(events, EngineCall("synthesize", "error")),
          cache |-> c]

\* the handler: its status, the calls of the engine it made, and the cache
\* it leaves
synthesis_from_text(c, model_name, answers, load_order) ==
    LET style_id == get_style_id_from_model_name(c.infos, model_name)
    IN  IF Raised(style_id)
        THEN [status |-> style_id.raised, events |-> <<>>, cache |-> c]
        ELSE LET run == SynthesisLoop(c, style_id.returned, answers,
                                      load_order, 1, <<>>)
             IN  [status |-> IF run.wave = "none" THEN "500"
                             ELSE IF run.wave = "raised" THEN "error"
                             ELSE "ok",
                  events |-> run.events,
                  cache |-> run.cache]

\* synthesis_from_text
SynthesisFromText(model_name, answers, load_order) ==
    /\ Idle
    /\ UseCache(cache, FALSE)
    /\ \E r \in {synthesis_from_text(cache, model_name, answers, load_order)} :
           /\ last' = Step("synthesis_from_text",
                           [model_name |-> model_name, events |-> r.events],
                           r.status, NoScan, "none")
           /\ cache' = r.cache
    /\ UNCHANGED <<codecVars, env, scans, phase, files, dispatched, tasks,
                   syncTasks>>

\* one request of the pass the running operation waits for ends
SyncFetch(aivm_uuid, outcome) ==
    /\ aivm_uuid \in syncTasks
    /\ UNCHANGED <<codecVars, env, scans>>
    /\ cache' = [infos |-> ApplyOutcome(cache.infos, aivm_uuid, outcome)]
    /\ syncTasks' = syncTasks \ {aivm_uuid}
    /\ last' = [last EXCEPT !.kind = "fetch", !.scan = NoScan,
                            !.fetch = Fetched(aivm_uuid, outcome),
                            !.status = IF syncTasks' = {} THEN "ok"
                                       ELSE "running"]
    /\ phase' = IF syncTasks' = {} THEN "ready" ELSE phase
    /\ UNCHANGED <<files, dispatched, tasks>>

\* the pass creates no task
update_tasks_none(c) == {}
\* the identities check_aivm_updates_from_hub creates its tasks for: those of
\* the cache published when the pass runs
update_tasks(c) == Keys(c.infos)

\* a background thread runs check_aivm_updates_from_hub up to the gather
BgStart ==
    /\ phase \in {"ready", "constructing"}
    /\ dispatched > 0
    /\ \A u \in update_tasks(cache) : tasks[u] < MaxPending
    /\ UNCHANGED <<codecVars, env, scans>>
    /\ dispatched' = dispatched - 1
    /\ tasks' = [u \in ModelUuids |->
                    IF u \in update_tasks(cache) THEN tasks[u] + 1
                    ELSE tasks[u]]
    /\ last' = BgStep(NoArg)
    /\ UNCHANGED <<phase, files, cache, syncTasks>>

\* one request of a background pass ends
BgFetch(aivm_uuid, outcome) ==
    /\ phase \in {"ready", "constructing"}
    /\ tasks[aivm_uuid] > 0
    /\ UNCHANGED <<codecVars, env, scans>>
    /\ cache' = [infos |-> ApplyOutcome(cache.infos, aivm_uuid, outcome)]
    /\ tasks' = [tasks EXCEPT ![aivm_uuid] = @ - 1]
    /\ last' = BgStep(Fetched(aivm_uuid, outcome))
    /\ UNCHANGED <<phase, files, dispatched, syncTasks>>

(***************************************************************************)
(* get_installed_aivm_infos(force=True) run by threads, statement by       *)
(* statement: glob, the loop over the files, the sort and the move of the  *)
(* load state, the assignment to self._installed_aivm_infos.               *)
(***************************************************************************)
ScanThreads == {"t1", "t2"}

\* a thread that is not in get_installed_aivm_infos
IdleScan ==
    [pc |-> "idle", aivm_file_paths |-> <<>>, i |-> 0, aivm_infos |-> <<>>,
     sorted_aivm_infos |-> <<>>]

NoScans == [t \in ScanThreads |-> IdleScan]

\* what a step of a scanning thread records
ScanStep(t, pc, status) ==
    [kind |-> "scan", op |-> "list", arg |-> [thread |-> t, pc |-> pc],
     status |-> status, scan |-> NoScan, recon |-> "none", fetch |-> NoArg,
     after |-> NoArg]

\* the loop fills the published dict itself
WhileScanningShared(c, aivm_infos) == [infos |-> aivm_infos]
\* the loop fills a local dict: the published one stays as it is
WhileScanning(c, aivm_infos) == c

\* the cache check and the glob of a forced call
ScanBegin(t, aivm_file_paths) ==
    /\ phase = "ready"
    /\ scans[t].pc = "idle"
    /\ ~UseCache(cache, TRUE)
    /\ scans' = [scans EXCEPT ![t] =
                    [pc |-> "loop", aivm_file_paths |-> aivm_file_paths,
                     i |-> 1, aivm_infos |-> <<>>,
                     sorted_aivm_infos |-> <<>>]]
    /\ last' = ScanStep(t, "glob", "running")
    /\ UNCHANGED <<codecVars, env, phase, files, cache, dispatched, tasks,
                   syncTasks>>

\* one iteration of the loop over aivm_file_paths
ScanLoop(t) ==
    LET my == scans[t]
    IN  /\ my.pc = "loop"
        /\ my.i <= Len(my.aivm_file_paths)
        /\ \E r \in {ScanFile(my.aivm_infos, my.aivm_file_paths[my.i],
                               files)} :
               IF Raised(r)
               THEN /\ scans' = [scans EXCEPT ![t] = IdleScan]
                    /\ last' = ScanStep(t, "loop", r.raised)
                    /\ cache' = cache
               ELSE /\ scans' = [scans EXCEPT ![t].aivm_infos = r.returned,
                                              ![t].i = my.i + 1]
                    /\ last' = ScanStep(t, "loop", "running")
                    /\ cache' = WhileScanning(cache, r.returned)
        /\ UNCHANGED <<codecVars, env, phase, files, dispatched, tasks,
                       syncTasks>>

\* after the loop: the sort by name and the move of the load state
ScanCarry(t) ==
    LET my == scans[t]
    IN  /\ my.pc = "loop"
        /\ my.i > Len(my.aivm_file_paths)
        /\ scans' = [scans EXCEPT
                        ![t].pc = "swap",
                        ![t].sorted_aivm_infos =
                            CarryLoadState(SortByName(my.aivm_infos), cache)]
        /\ last' = ScanStep(t, "carry", "running")
        /\ UNCHANGED <<codecVars, env, phase, files, cache, dispatched,
                       tasks, syncTasks>>

\* the assignment to self._installed_aivm_infos, the start of the thread of
\* the update check, and the return
ScanSwap(t) ==
    LET my == scans[t]
    IN  /\ my.pc = "swap"
        /\ dispatched < MaxPending
        /\ cache' = [infos |-> my.sorted_aivm_infos]
        /\ tasks' = NoTasks
        /\ dispatched' = dispatched + 1
        /\ scans' = [scans EXCEPT ![t] = IdleScan]
        /\ last' = ScanStep(t, "swap", "ok")
        /\ UNCHANGED <<codecVars, env, phase, files, syncTasks>>

(***************************************************************************)
(* Specifications.                                                         *)
(***************************************************************************)
\* the digests the registry runs with
MainMd5 == [u \in SpeakerUuids |-> IF u = "spk-d" THEN (2^26) + 1 ELSE 1]

RegistryInit ==
    /\ phase = "new"
    /\ cache = NoCache
    /\ dispatched = 0
    /\ tasks = NoTasks
    /\ syncTasks = {}
    /\ last = Step("none", NoArg, "ok", NoScan, "none")
    /\ scans = NoScans

Init ==
    /\ md5 = MainMd5
    /\ procSeed = 0
    /\ encIn = <<>>
    /\ encOut = NoCall
    /\ encAgain = NoCall
    /\ env = "lifecycle"
    /\ files \in Environment.dirs
    /\ RegistryInit

Next ==
    \/ Construct
    \/ \E force \in BOOLEAN, wait \in BOOLEAN : ListEntries(force, wait)
    \/ \E u \in ModelUuids, v \in Environment.loads : SetLoadState(u, v)
    \/ \E bytes \in Environment.installs : Install(bytes)
    \/ \E url \in Environment.urls : InstallFromUrl(url)
    \/ \E u \in ModelUuids : Update(u)
    \/ \E u \in ModelUuids : Uninstall(u)
    \/ \E u \in ModelUuids, o \in Environment.catalog : SyncFetch(u, o)
    \/ BgStart
    \/ \E u \in ModelUuids, o \in Environment.catalog : BgFetch(u, o)

Spec == Init /\ [][Next]_vars

OpsInit ==
    /\ md5 = MainMd5
    /\ procSeed = 0
    /\ encIn = <<>>
    /\ encOut = NoCall
    /\ encAgain = NoCall
    /\ env = "operations"
    /\ files \in Environment.dirs
    /\ RegistryInit

OpsSpec == OpsInit /\ [][Next]_vars

\* the operations, and files removed behind the registry's back
DiskNext == Next \/ \E p \in FileNames : ExternalRemove(p)

DiskInit ==
    /\ md5 = MainMd5
    /\ procSeed = 0
    /\ encIn = <<>>
    /\ encOut = NoCall
    /\ encAgain = NoCall
    /\ env = "disk"
    /\ files \in Environment.dirs
    /\ RegistryInit

DiskSpec == DiskInit /\ [][DiskNext]_vars

\* the operations and the lookups, on the directories of Disk
ReadNext ==
    \/ Next
    \/ \E aivm_uuid \in ModelUuids : GetAivmInfo(aivm_uuid)
    \/ \E speaker_uuid \in SpeakerUuids : GetSpeakerInfo(speaker_uuid)
    \/ \E style_id \in StyleIdKeys : GetAivmManifestFromStyleId(style_id)

ReadSpec == DiskInit /\ [][ReadNext]_vars

\* digests of the speakers: spk-d and spk-x agree in the bits the codec keeps
VoiceMd5 ==
    [u \in VoiceSpeakers |->
        CASE u = "spk-d" -> (2^26) + 1
          [] u = "spk-x" -> 1
          [] u = "spk-y" -> 2
          [] OTHER -> 3]

VoiceInit ==
    /\ md5 = VoiceMd5
    /\ procSeed = 0
    /\ encIn = <<>>
    /\ encOut = NoCall
    /\ encAgain = NoCall
    /\ env = "voices"
    /\ files \in Environment.dirs
    /\ RegistryInit

\* the operations and the lookups, among them the lookup by speaker name
VoiceNext ==
    \/ Next
    \/ \E aivm_uuid \in ModelUuids : GetAivmInfo(aivm_uuid)
    \/ \E speaker_uuid \in VoiceSpeakers : GetSpeakerInfo(speaker_uuid)
    \/ \E style_id \in VoiceStyleIdKeys :
           GetAivmManifestFromStyleId(style_id)
    \/ \E model_name \in VoiceNames : GetStyleIdFromModelName(model_name)

VoiceSpec == VoiceInit /\ [][VoiceNext]_vars

\* the manager is constructed and the handler is called with names of
\* speakers and with the name of no speaker
SynthNext ==
    \/ Construct
    \/ \E model_name \in VoiceNames, answers \in EngineAnswers,
          load_order \in Perms(ModelUuids) :
           SynthesisFromText(model_name, answers, load_order)

SynthSpec == VoiceInit /\ [][SynthNext]_vars

ScanInit ==
    /\ md5 = MainMd5
    /\ procSeed = 0
    /\ encIn = <<>>
    /\ encOut = NoCall
    /\ encAgain = NoCall
    /\ env = "racing"
    /\ files \in Environment.dirs
    /\ RegistryInit

\* forced calls of get_installed_aivm_infos by threads, interleaved with
\* each other, with calls that read the cache and with the update checks
\* the calls start; the directory stays as it is
ScanNext ==
    \/ Construct
    \/ \E t \in ScanThreads :
           \E aivm_file_paths \in GlobOrders(files) :
               ScanBegin(t, aivm_file_paths)
    \/ \E t \in ScanThreads : ScanLoop(t)
    \/ \E t \in ScanThreads : ScanCarry(t)
    \/ \E t \in ScanThreads : ScanSwap(t)
    \/ ListEntries(FALSE, FALSE)
    \/ BgStart
    \/ \E u \in ModelUuids, o \in Environment.catalog : BgFetch(u, o)

ScanSpec == ScanInit /\ [][ScanNext]_vars

\* one thread in a forced call of get_installed_aivm_infos, interleaved with
\* calls of update_model_load_state and with the update checks it starts
LoadRaceNext ==
    \/ Construct
    \/ \E aivm_file_paths \in GlobOrders(files) :
           ScanBegin("t1", aivm_file_paths)
    \/ ScanLoop("t1")
    \/ ScanCarry("t1")
    \/ ScanSwap("t1")
    \/ \E u \in ModelUuids, v \in Environment.loads : SetLoadState(u, v)
    \/ BgStart
    \/ \E u \in ModelUuids, o \in Environment.catalog : BgFetch(u, o)

LoadRaceSpec == ScanInit /\ [][LoadRaceNext]_vars

FairInit ==
    /\ md5 = MainMd5
    /\ procSeed = 0
    /\ encIn = <<>>
    /\ encOut = NoCall
    /\ encAgain = NoCall
    /\ env = "fair"
    /\ files \in Environment.dirs
    /\ RegistryInit

\* the manager is constructed and forced rescans are called, waiting or not;
\* the directory stays as it is
FairNext ==
    \/ Construct
    \/ \E wait \in BOOLEAN : ListEntries(TRUE, wait)
    \/ \E u \in ModelUuids, o \in Environment.catalog : SyncFetch(u, o)
    \/ BgStart
    \/ \E u \in ModelUuids, o \in Environment.catalog : BgFetch(u, o)

\* the engine constructs the manager when it starts; a thread that was
\* started runs; a request that was sent is answered, and asyncio.run and the
\* thread of a pass run the tasks of the pass to their end
Fairness ==
    /\ WF_vars(Construct)
    /\ WF_vars(BgStart)
    /\ \A u \in ModelUuids :
           /\ WF_vars(\E o \in Environment.catalog : SyncFetch(u, o))
           /\ WF_vars(\E o \in Environment.catalog : BgFetch(u, o))

FairSpec == FairInit /\ [][FairNext]_vars /\ Fairness

HubInit ==
    /\ md5 = MainMd5
    /\ procSeed = 0
    /\ encIn = <<>>
    /\ encOut = NoCall
    /\ encAgain = NoCall
    /\ env = "hub"
    /\ files \in Environment.dirs
    /\ RegistryInit

HubSpec == HubInit /\ [][Next]_vars

FlightInit ==
    /\ md5 = MainMd5
    /\ procSeed = 0
    /\ encIn = <<>>
    /\ encOut = NoCall
    /\ encAgain = NoCall
    /\ env = "flight"
    /\ files \in Environment.dirs
    /\ RegistryInit

FlightSpec == FlightInit /\ [][Next]_vars

WriteInit ==
    /\ md5 = MainMd5
    /\ procSeed = 0
    /\ encIn = <<>>
    /\ encOut = NoCall
    /\ encAgain = NoCall
    /\ env = "writes"
    /\ files \in Environment.dirs
    /\ RegistryInit

WriteSpec == WriteInit /\ [][Next]_vars

CodecInit ==
    /\ md5 \in [SpeakerUuids -> DigestSamples]
    /\ procSeed = 0
    /\ encIn = <<>>
    /\ encOut = NoCall
    /\ encAgain = NoCall
    /\ env = "lifecycle"
    /\ files = EmptyDir
    /\ RegistryInit

CodecNext ==
    \/ /\ \E i \in LocalIdArgs, u \in SpeakerUuids \cup {""} : Encode(i, u)
       /\ UNCHANGED registryVars
    \/ EncodeAgain /\ UNCHANGED registryVars
    \/ Restart /\ UNCHANGED registryVars

CodecSpec == CodecInit /\ [][CodecNext]_vars

(***************************************************************************)
(* Properties of the codec (CodecSpec).                                    *)
(***************************************************************************)
Called == encIn # <<>>

\* C1: for a non-empty identity and a local style id in 0..31, decoding the
\* encoded style id gives the local style id back.
C1_RoundTrip ==
    (Called /\ ValidArgs(encIn[1], encIn[2]))
        => /\ Returned(encOut)
           /\ style_id_to_local_style_id(encOut.returned) = encIn[1]

C1_Witness ==
    /\ Called
    /\ encIn[1] = 31
    /\ encIn[2] # ""
    /\ Md5Int(encIn[2]) = (2^27) - 1
    /\ Returned(encOut)

\* C2: an encoded style id has no bit set at position 31 or above, so it lies
\* in 0 .. 2^31 - 1 and is not negative as a signed 32-bit integer.
C2_NonNegative ==
    (Called /\ Returned(encOut))
        => \A i \in BitIdx : i >= 31 => encOut.returned[i] = 0

C2_Witness ==
    /\ Called
    /\ ValidArgs(encIn[1], encIn[2])
    /\ (Md5Int(encIn[2]) \div (2^26)) % 2 = 1
    /\ Returned(encOut)

SameId(i, a, b) ==
    local_style_id_to_style_id(i, a) = local_style_id_to_style_id(i, b)

\* C3 as stated: two identities get the same style id for a local style id
\* only if their digests agree on the low 27 bits.
C3_Digest27Decides ==
    (Called /\ encIn[1] \in 0..31)
        => \A a, b \in SpeakerUuids :
               SameId(encIn[1], a, b)
                   => Md5Int(a) % (2^27) = Md5Int(b) % (2^27)

\* C3 amended: two identities get the same style id for a local style id
\* only if their digests agree on the low 26 bits.
C3_Digest26Decides ==
    (Called /\ encIn[1] \in 0..31)
        => \A a, b \in SpeakerUuids :
               SameId(encIn[1], a, b)
                   => Md5Int(a) % (2^26) = Md5Int(b) % (2^26)

C3_Witness ==
    /\ Called
    /\ encIn[1] \in 0..31
    /\ \E a, b \in SpeakerUuids :
           /\ Md5Int(a) % (2^27) # Md5Int(b) % (2^27)
           /\ SameId(encIn[1], a, b)

\* C4: with an empty identity or a local style id outside 0..31 the encoder
\* raises ValueError and returns no id.
C4_ArgumentError ==
    (Called /\ ~ValidArgs(encIn[1], encIn[2])) => encOut = Raise(ValueError)

C4_Witness ==
    /\ Called
    /\ encIn[1] = 32
    /\ encIn[2] # ""
    /\ Raised(encOut)

C6_NeverEmpty ==
    phase = "ready" => (~CacheIsNone(cache) /\ Len(cache.infos) >= 1)

\* C7 (OpsSpec): uninstalling the identity of the only cached entry fails
\* with HTTP 400; the cache, the directory and the entry's file stay as they
\* were, and neither a scan nor a catalog request is started.
C7_LastEntryRefused ==
    [][(/\ last'.kind = "call"
        /\ last'.op = "uninstall"
        /\ Len(cache.infos) = 1
        /\ last'.arg.uuid \in Keys(cache.infos))
          => /\ last'.status = "400"
             /\ cache' = cache
             /\ files' = files
             /\ files'[Lookup(cache'.infos, last'.arg.uuid).file_path] # NoFile
             /\ ~last'.scan.scanned
             /\ last'.recon = "none"
             /\ UNCHANGED <<dispatched, tasks, syncTasks>>]_vars

C7_Witness ==
    /\ last.kind = "call"
    /\ last.op = "uninstall"
    /\ last.status = "400"
    /\ Len(cache.infos) = 1
    /\ last.arg.uuid \in Keys(cache.infos)

\* C8 (Spec): when the first scan finds nothing and the install of the
\* default model fails, __init__ still returns.
C8_BootstrapFailureTolerated ==
    ~(phase = "raised" /\ ~CacheIsNone(cache) /\ cache.infos = <<>>)

\* a package file a scan indexes when no earlier file has its identity
ValidFile(path, fs) ==
    LET bytes == fs[path]
    IN  /\ bytes # NoFile
        /\ ReadBySuffix(path, bytes)
        /\ Len(bytes.manifest_version) = 2
        /\ bytes.manifest_version[1] = "1"
        /\ bytes.manifest_version[2] \in {"0", "1", "2"}
        /\ bytes.model_architecture \in SUPPORTED_MODEL_ARCHITECTURES

Published ==
    /\ last.kind = "call"
    /\ last.scan.scanned
    /\ last.status \in {"ok", "running"}

\* C9 (OpsSpec): the cache a scan publishes has one entry per identity, and
\* each entry is that of the first valid file of its identity in the order
\* the scan enumerated the files.
C9_FirstFileWins ==
    Published =>
        LET order == last.scan.order
            ValidAt(k, u) ==
                ValidFile(order[k], files) /\ files[order[k]].uuid = u
        IN  /\ \A i, j \in DOMAIN cache.infos :
                   i # j => cache.infos[i].manifest.uuid
                                # cache.infos[j].manifest.uuid
            /\ \A i \in DOMAIN cache.infos :
                   \E k \in DOMAIN order :
                       /\ cache.infos[i].file_path = order[k]
                       /\ ValidAt(k, cache.infos[i].manifest.uuid)
                       /\ \A m \in 1..(k - 1) :
                              ~ValidAt(m, cache.infos[i].manifest.uuid)
            /\ \A k \in DOMAIN order :
                   ValidFile(order[k], files)
                       => files[order[k]].uuid \in Keys(cache.infos)

C9_Witness ==
    /\ Published
    /\ \E k, m \in DOMAIN last.scan.order :
           /\ k < m
           /\ last.scan.order[k] = Path("manual", ".aivmx")
           /\ ValidFile(last.scan.order[k], files)
           /\ ValidFile(last.scan.order[m], files)
           /\ files[last.scan.order[k]].uuid = files[last.scan.order[m]].uuid
           /\ files[last.scan.order[k]] # files[last.scan.order[m]]
    /\ Len(cache.infos) = 1
    /\ cache.infos[1].file_path = Path("manual", ".aivmx")

Kept == Keys(cache.infos) \cap Keys(cache'.infos)

\* C10 (OpsSpec): update_model_load_state sets the load state of a cached
\* entry, and every later step, forced rescans included, leaves the load
\* state of each entry that stays in the cache as it was.
C10_LoadStateSurvivesRescan ==
    [][/\ (/\ last'.kind = "call"
           /\ last'.op = "set_load_state"
           /\ last'.arg.uuid \in Keys(cache.infos))
             => Lookup(cache'.infos, last'.arg.uuid).is_loaded
                    = last'.arg.is_loaded
       /\ (/\ ~CacheIsNone(cache)
           /\ ~(last'.kind = "call" /\ last'.op = "set_load_state"))
             => \A u \in Kept :
                    Lookup(cache'.infos, u).is_loaded
                        = Lookup(cache.infos, u).is_loaded]_vars

C10_Witness ==
    /\ Published
    /\ last.op = "list"
    /\ \E i, j \in DOMAIN cache.infos :
           cache.infos[i].is_loaded /\ ~cache.infos[j].is_loaded

(***************************************************************************)
(* Installs, updates and uninstalls.                                       *)
(***************************************************************************)
\* the cache an operation starts from; __init__ starts from none
Before == IF CacheIsNone(cache) THEN <<>> ELSE cache.infos

\* the step wrote a package and published the rescan that followed
InstallPublished(step) ==
    /\ step.kind = "call"
    /\ step.op \in {"construct", "install", "install_from_url", "update"}
    /\ "fmt" \in DOMAIN step.arg
    /\ step.scan.scanned
    /\ step.status \in {"ok", "running"}

\* the operation recorded in last has returned to its caller
Returns(step) == step.kind \in {"call", "fetch"} /\ step.status = "ok"

ByName(infos) ==
    \A i, j \in DOMAIN infos :
        i < j => infos[i].manifest.name <= infos[j].manifest.name

\* the identities of the valid package files of a directory
ValidIdentities(fs) == {fs[p].uuid : p \in {q \in Present(fs) : ValidFile(q, fs)}}

\* C11 (OpsSpec): a registry constructed over a directory of valid packages
\* has one entry for each of their identities, and an install of a package
\* whose identity is not in the cache (the install of the default model by
\* __init__ included) publishes the entries there were plus one for the new
\* identity, always in ascending order of display name; a listing that does
\* not rescan returns that cache and one that rescans publishes the same
\* identities.  So N valid packages of distinct identities installed into
\* an empty directory are listed as N entries ordered by display name.
C11_InstallsListed ==
    [][/\ (/\ last'.kind = "call"
           /\ last'.op = "construct"
           /\ last'.status = "ok"
           /\ "fmt" \notin DOMAIN last'.arg)
             => /\ Keys(cache'.infos) = ValidIdentities(files)
                /\ Len(cache'.infos) = Cardinality(ValidIdentities(files))
                /\ ByName(cache'.infos)
       /\ (InstallPublished(last') /\ last'.arg.uuid \notin Keys(Before))
             => /\ Keys(cache'.infos) = Keys(Before) \cup {last'.arg.uuid}
                /\ Len(cache'.infos) = Len(Before) + 1
                /\ ByName(cache'.infos)
       /\ (last'.kind = "call" /\ last'.op = "list"
              /\ last'.status = "ok" /\ ~CacheIsNone(cache))
             => /\ Keys(cache'.infos) = Keys(cache.infos)
                /\ Len(cache'.infos) = Len(cache.infos)
                /\ ByName(cache'.infos)
                /\ ~last'.scan.scanned => cache' = cache]_vars

C11_Witness ==
    /\ Returns(last)
    /\ last.op = "install"
    /\ last.arg.uuid = "x-model"
    /\ Present(files) = {Path("x-model", ".aivmx"), Path("a59cb814", ".aivmx")}
    /\ Len(cache.infos) = 2
    /\ cache.infos[1].manifest.uuid = "x-model"
    /\ cache.infos[2].manifest.uuid = "a59cb814"

\* C12 (OpsSpec): an install of a package whose identity is in the cache
\* writes the package to the file of that entry and to no other file, and
\* the cache it publishes has as many entries as before, the identity among
\* them.
C12_OverwriteInPlace ==
    [][(InstallPublished(last') /\ last'.arg.uuid \in Keys(Before))
          => LET aivm_uuid == last'.arg.uuid
                 aivm_file_path == Lookup(cache.infos, aivm_uuid).file_path
             IN  /\ files'[aivm_file_path] # NoFile
                 /\ files'[aivm_file_path].uuid = aivm_uuid
                 /\ files'[aivm_file_path].fmt = last'.arg.fmt
                 /\ files'[aivm_file_path].version = last'.arg.version
                 /\ \A q \in FileNames \ {aivm_file_path} :
                        files'[q] = files[q]
                 /\ Len(cache'.infos) = Len(cache.infos)
                 /\ aivm_uuid \in Keys(cache'.infos)]_vars

(***************************************************************************)
(* Reconciliation with the catalog (HubSpec).                              *)
(***************************************************************************)
\* semantic-version order on major.minor.patch
Newer(a, b) ==
    \E i \in 1..3 : a[i] > b[i] /\ \A j \in 1..(i - 1) : a[j] = b[j]

\* a request ended in the step
FetchStep(step) == "outcome" \in DOMAIN step.fetch

\* C13 (HubSpec): a request that times out leaves every entry as it was, and
\* a request answered with a version v sets latest_version = v and
\* is_update_available = (v > installed version) on its own entry and leaves
\* every other entry as it was, whichever request of a pass ends first.
C13_TasksIndependent ==
    [][FetchStep(last')
          => LET aivm_uuid == last'.fetch.uuid
                 outcome == last'.fetch.outcome
             IN  /\ outcome.kind = "timeout" => cache' = cache
                 /\ Len(cache'.infos) = Len(cache.infos)
                 /\ \A i \in DOMAIN cache.infos :
                        IF cache.infos[i].manifest.uuid # aivm_uuid
                        THEN cache'.infos[i] = cache.infos[i]
                        ELSE (outcome.kind = "200" /\ Len(outcome.version) = 3)
                                 => cache'.infos[i] =
                                      [cache.infos[i] EXCEPT
                                         !.latest_version = outcome.version,
                                         !.is_update_available =
                                            Newer(outcome.version,
                                                  cache.infos[i].manifest
                                                       .version)]]_vars

C13_Witness ==
    /\ last.kind = "fetch"
    /\ last.status = "ok"
    /\ last.fetch.uuid = "x-model"
    /\ last.fetch.outcome.kind = "timeout"
    /\ Len(cache.infos) = 2
    /\ ~Lookup(cache.infos, "x-model").is_update_available
    /\ Lookup(cache.infos, "x-model").latest_version = V100
    /\ Lookup(cache.infos, "a59cb814").is_update_available
    /\ Lookup(cache.infos, "a59cb814").latest_version = V120

\* C14 (HubSpec): when a request of a waited pass has just been answered
\* with a version v for a cached entry, the entry has latest_version = v and
\* is_update_available is true exactly when v is greater than its installed
\* version.
C14_FlagFollowsVersion ==
    (/\ last.kind = "fetch"
     /\ FetchStep(last)
     /\ last.fetch.outcome.kind = "200"
     /\ Len(last.fetch.outcome.version) = 3
     /\ last.fetch.uuid \in Keys(cache.infos))
        => LET aivm_info == Lookup(cache.infos, last.fetch.uuid)
           IN  /\ aivm_info.latest_version = last.fetch.outcome.version
               /\ aivm_info.is_update_available
                      = Newer(last.fetch.outcome.version,
                              aivm_info.manifest.version)

C14_Witness ==
    /\ last.kind = "fetch"
    /\ FetchStep(last)
    /\ last.fetch.uuid = "x-model"
    /\ last.fetch.outcome = [kind |-> "200", version |-> V100]
    /\ "x-model" \in Keys(cache.infos)
    /\ Lookup(cache.infos, "x-model").manifest.version = V120
    /\ ~Lookup(cache.infos, "x-model").is_update_available

\* the identity an update was asked for
Asked(step) == IF "of" \in DOMAIN step.arg THEN step.arg.of.uuid
               ELSE step.arg.uuid

\* C15 (HubSpec): when update_aivm has returned normally after installing
\* the downloaded package of the identity it was asked for, the identity is
\* in the cache with the version of that package and is_update_available
\* false.
C15_UpdateClearsFlag ==
    (/\ Returns(last)
     /\ last.op = "update"
     /\ "fmt" \in DOMAIN last.arg
     /\ last.arg.uuid = Asked(last))
        => /\ Asked(last) \in Keys(cache.infos)
           /\ Lookup(cache.infos, Asked(last)).manifest.version
                  = last.arg.version
           /\ ~Lookup(cache.infos, Asked(last)).is_update_available

\* C16 (HubSpec): update_aivm for an identity that is not cached ends with
\* 404 and for an entry whose is_update_available is false with 422; in both
\* cases no package is received, and the directory, the cache and the
\* reconciliation passes stay as they were.
C16_UpdateRefused ==
    [][(/\ last'.kind = "call"
        /\ last'.op = "update"
        /\ \/ Asked(last') \notin Keys(cache.infos)
           \/ ~Lookup(cache.infos, Asked(last')).is_update_available)
          => /\ last'.status = IF Asked(last') \notin Keys(cache.infos)
                               THEN "404" ELSE "422"
             /\ "fmt" \notin DOMAIN last'.arg
             /\ ~last'.scan.scanned
             /\ UNCHANGED <<files, cache, dispatched, tasks, syncTasks>>]_vars

C16_Witness ==
    /\ last.kind = "call"
    /\ last.op = "update"
    /\ last.status = "422"
    /\ Asked(last) \in Keys(cache.infos)
    /\ ~Lookup(cache.infos, Asked(last)).is_update_available
    /\ Lookup(cache.infos, Asked(last)).latest_version = V120
    /\ Lookup(cache.infos, Asked(last)).manifest.version = V120

\* C17 (DiskSpec): uninstall_aivm for an identity that is not cached ends
\* with 404 and changes nothing; for a cached identity with more than one
\* entry cached it removes the file of the entry and no other, whether or
\* not the file was still there, and publishes the cache rescanned from the
\* directory it leaves.
C17_UninstallRemoves ==
    [][(last'.kind = "call" /\ last'.op = "uninstall")
          => IF last'.arg.uuid \notin Keys(cache.infos)
             THEN /\ last'.status = "404"
                  /\ UNCHANGED <<files, cache, dispatched, tasks, syncTasks>>
             ELSE Len(cache.infos) > 1
                    => LET aivm_file_path ==
                               Lookup(cache.infos, last'.arg.uuid).file_path
                       IN  /\ last'.status \in {"ok", "running"}
                           /\ files' = [files EXCEPT
                                           ![aivm_file_path] = NoFile]
                           /\ last'.scan.scanned
                           /\ Keys(cache'.infos) = ValidIdentities(files')
                           /\ \A i \in DOMAIN cache'.infos :
                                  files'[cache'.infos[i].file_path].uuid
                                      = cache'.infos[i].manifest.uuid]_vars

C17_Witness ==
    /\ Returns(last)
    /\ last.op = "uninstall"
    /\ "existed" \in DOMAIN last.arg
    /\ ~last.arg.existed
    /\ last.arg.uuid \notin Keys(cache.infos)
    /\ Len(cache.infos) = 1

\* C18 (Spec): the scan of __init__ does not raise, whatever package files
\* the directory holds.
C18_ScanNeverRaises == ~(phase = "raised" /\ CacheIsNone(cache))

\* C19 (HubSpec): a step in which a request ends, however it ends, keeps the
\* entries of the cache and does not fail the operation that waits for it,
\* and a call that has published its rescan returns normally or waits for
\* its requests, whether or not the pass could be started.
C19_ReconciliationContained ==
    [][/\ FetchStep(last')
          => /\ last'.status \in {"ok", "running"}
             /\ Keys(cache'.infos) = Keys(cache.infos)
             /\ files' = files
       /\ (/\ last'.kind = "call"
           /\ last'.op \in {"list", "install", "install_from_url",
                             "update", "uninstall"}
           /\ last'.scan.scanned)
          => /\ last'.status \in {"ok", "running"}
             /\ last'.recon \in {"waited", "spawned", "start_failed"}
             /\ ~CacheIsNone(cache')
             /\ Keys(cache'.infos) = ValidIdentities(files')]_vars

C19_Witness ==
    /\ last.kind = "call"
    /\ last.op = "list"
    /\ last.status = "ok"
    /\ last.recon = "start_failed"
    /\ Len(cache.infos) = 2

\* C20 (OpsSpec): a call of get_installed_aivm_infos that does not wait for
\* the update check has returned when its step ends, with no request of a
\* pass waited for, also while the pass it handed to a thread has not begun.
C20_ListReturnsAtOnce ==
    [][(last'.kind = "call" /\ last'.op = "list" /\ ~last'.arg.wait)
          => /\ last'.status = "ok"
             /\ syncTasks' = {}
             /\ phase' = "ready"]_vars

C20_Witness ==
    /\ last.kind = "call"
    /\ last.op = "list"
    /\ ~last.arg.wait
    /\ last.status = "ok"
    /\ last.recon = "spawned"
    /\ dispatched > 0
    /\ syncTasks = {}
    /\ \A u \in ModelUuids : tasks[u] = 0

\* C21 (FlightSpec): once install_aivm or install_aivm_from_url has returned
\* normally, no request of an update check that ends before the next
\* operation is called changes the cache: the values read right after the
\* install are final.
C21_InstallLeavesNothingInFlight ==
    [][(/\ last'.kind = "bg"
        /\ FetchStep(last')
        /\ "op" \in DOMAIN last'.after
        /\ last'.after.op \in {"install", "install_from_url"}
        /\ last'.after.status = "ok")
          => cache' = cache]_vars

\* the step is a call of install_aivm with bytes that parse as a package
InstallParsed(step) ==
    /\ step.kind = "call"
    /\ step.op \in {"install", "install_from_url"}
    /\ "fmt" \in DOMAIN step.arg
    /\ step.arg.fmt \in {"AIVMX", "AIVM"}

\* C22 (WriteSpec): install_aivm answers a parsed package with 422 exactly
\* when the major manifest version differs from the supported one or the
\* architecture is unsupported, and a rejection writes no file and leaves
\* the cache as it was.
C22_InstallRejectsLikeScan ==
    [][InstallParsed(last')
          => /\ (last'.status = "422")
                   <=> (\/ last'.arg.manifest_version[1]
                              # SUPPORTED_MANIFEST_VERSIONS[1][1]
                        \/ last'.arg.model_architecture
                              \notin SUPPORTED_MODEL_ARCHITECTURES)
             /\ last'.status = "422" => files' = files /\ cache' = cache]_vars

\* the file holds the whole package the step was handed
HoldsPackage(file, step) ==
    /\ file # NoFile
    /\ file.fmt = step.arg.fmt
    /\ file.uuid = step.arg.uuid
    /\ file.version = step.arg.version

\* C24 (WriteSpec): in a call of install_aivm every file of the directory
\* keeps its content or holds the whole new package, and a call that fails
\* leaves every file as it was.
C24_WriteAllOrNothing ==
    [][InstallParsed(last')
          => /\ \A p \in FileNames :
                    files'[p] = files[p] \/ HoldsPackage(files'[p], last')
             /\ last'.status \notin {"ok", "running"} => files' = files]_vars

\* the entry of the cache the request of the step was sent for
Fetching(step, c) == Lookup(c.infos, step.fetch.uuid)

\* C25 (HubSpec): a request answered with 404 or another status that is not
\* 200, a request that times out or fails in transport, and an answer with
\* no AIVMX file leave the cache, latest_version and is_update_available of
\* the entry included, as it was.
C25_NoAnswerNoChange ==
    [][(/\ FetchStep(last')
        /\ last'.fetch.outcome.kind
              \in {"404", "500", "timeout", "request_error", "no_aivmx"})
          => cache' = cache]_vars

C25_Witness ==
    /\ FetchStep(last)
    /\ last.fetch.outcome.kind = "no_aivmx"
    /\ last.fetch.uuid \in Keys(cache.infos)
    /\ Fetching(last, cache).is_update_available
    /\ Fetching(last, cache).latest_version = V120
    /\ Fetching(last, cache).manifest.version = V100

\* C26 (HubSpec): an answer with status 200 that lacks a field or carries a
\* version that does not parse leaves the cache, latest_version and
\* is_update_available of the entry included, as it was.
C26_MalformedNoChange ==
    [][(/\ FetchStep(last')
        /\ \/ last'.fetch.outcome.kind = "malformed"
           \/ /\ last'.fetch.outcome.kind = "200"
              /\ ~Parseable(last'.fetch.outcome.version))
          => cache' = cache]_vars

\* the step is a call of update_model_load_state
LoadStateCall(step) == step.kind = "call" /\ step.op = "set_load_state"

\* C29 (OpsSpec): update_model_load_state returns normally without a scan or
\* an update check and changes nothing but is_loaded of the entry of the
\* given identity, which becomes the given value; for an identity that is
\* not in the cache it changes nothing; and the same call made again changes
\* nothing.
C29_LoadStateOnly ==
    [][LoadStateCall(last')
          => /\ last'.status = "ok"
             /\ ~last'.scan.scanned
             /\ last'.recon = "none"
             /\ UNCHANGED <<files, phase, dispatched, tasks, syncTasks>>
             /\ Keys(cache'.infos) = Keys(cache.infos)
             /\ \A i \in DOMAIN cache.infos :
                    IF cache.infos[i].manifest.uuid = last'.arg.uuid
                    THEN cache'.infos[i] =
                            [cache.infos[i] EXCEPT
                                !.is_loaded = last'.arg.is_loaded]
                    ELSE cache'.infos[i] = cache.infos[i]
             /\ last'.arg.uuid \notin Keys(cache.infos) => cache' = cache
             /\ (LoadStateCall(last) /\ last.arg = last'.arg)
                    => cache' = cache]_vars

C29_Witness ==
    /\ LoadStateCall(last)
    /\ last.arg.is_loaded
    /\ Len(cache.infos) = 2
    /\ Lookup(cache.infos, last.arg.uuid).is_loaded
    /\ \E i \in DOMAIN cache.infos : ~cache.infos[i].is_loaded

\* the step is a call of get_installed_aivm_infos
ListCall(step) == step.kind = "call" /\ step.op = "list"

\* C30 (OpsSpec): a call of get_installed_aivm_infos without force on a
\* manager that has a cache enumerates no directory, starts no update check
\* and leaves the cache as it is; a call with force, like the call __init__
\* makes while there is no cache and that finds a model, enumerates the
\* directory and, when it publishes, runs or hands over an update check.
C30_CacheReturnedUnlessForced ==
    [][/\ (ListCall(last') /\ ~last'.arg.force)
          => /\ ~CacheIsNone(cache)
             /\ last'.status = "ok"
             /\ ~last'.scan.scanned
             /\ last'.recon = "none"
             /\ UNCHANGED <<files, cache, dispatched, tasks, syncTasks>>
       /\ (\/ ListCall(last') /\ last'.arg.force
           \/ /\ last'.kind = "call"
              /\ last'.op = "construct"
              /\ last'.arg = NoArg
              /\ last'.status = "ok"
              /\ CacheIsNone(cache))
          => /\ last'.scan.scanned
             /\ last'.status \in {"ok", "running"}
                    => last'.recon \in {"waited", "spawned", "start_failed"}]_vars

C30_Witness ==
    /\ ListCall(last)
    /\ ~last.arg.force
    /\ last.status = "ok"
    /\ ~last.scan.scanned
    /\ last.recon = "none"
    /\ Len(cache.infos) = 2
    /\ \E i \in DOMAIN cache.infos : cache.infos[i].is_loaded
    /\ dispatched = 0

\* the entries of the cache whose identity the previous cache did not have
NewEntries(before, after) ==
    {i \in DOMAIN after : after[i].manifest.uuid \notin Keys(before)}

\* C28 (OpsSpec): the cache a rescan publishes holds the identities that
\* have a valid package in the directory and no other, so an identity whose
\* package is gone is dropped with its load state, and every entry whose
\* identity the previous cache did not hold starts unloaded.
C28_RemovedEntryForgotten ==
    [][(/\ last'.kind = "call"
        /\ last'.scan.scanned
        /\ last'.status \in {"ok", "running"})
          => /\ Keys(cache'.infos) = ValidIdentities(files')
             /\ \A u \in Keys(Before) \ ValidIdentities(files') :
                    u \notin Keys(cache'.infos)
             /\ \A i \in NewEntries(Before, cache'.infos) :
                    ~cache'.infos[i].is_loaded]_vars

C28_Witness ==
    /\ last.kind = "call"
    /\ last.op = "install"
    /\ last.scan.scanned
    /\ last.status = "running"
    /\ last.arg.uuid = "x-model"
    /\ files[Path("x-model", ".aivm")] = NoFile
    /\ files[Path("manual", ".aivmx")] = NoFile
    /\ Len(cache.infos) = 2
    /\ ~Lookup(cache.infos, "x-model").is_loaded
    /\ Lookup(cache.infos, "a59cb814").is_loaded

\* the step is a call of one of the three lookups
LookupStep(step) ==
    /\ step.kind = "call"
    /\ step.op \in {"get_aivm_info", "get_speaker_info",
                    "get_aivm_manifest_from_style_id"}

\* some entry, speaker or style of the cache has the key of the lookup
Matched(step, infos) ==
    CASE step.op = "get_aivm_info" ->
             \E i \in DOMAIN infos : infos[i].manifest.uuid = step.arg.key
      [] step.op = "get_speaker_info" ->
             \E i \in DOMAIN infos : \E j \in DOMAIN infos[i].speakers :
                 infos[i].speakers[j].speaker.speaker_uuid = step.arg.key
      [] OTHER ->
             \E i \in DOMAIN infos : \E j \in DOMAIN infos[i].speakers :
                 \E k \in DOMAIN infos[i].speakers[j].speaker.styles :
                     infos[i].speakers[j].speaker.styles[k].id = step.arg.key

\* C23 (ReadSpec): get_aivm_info, get_speaker_info and
\* get_aivm_manifest_from_style_id, called on a manager that has a cache,
\* leave the cache and the directory as they are, enumerate no directory and
\* start no update check, and raise 404 exactly when no entry, speaker or
\* style of the cache has the key; otherwise they return.
C23_LookupsReadOnly ==
    [][LookupStep(last')
          => /\ UNCHANGED <<files, cache, phase, dispatched, tasks, syncTasks>>
             /\ ~last'.scan.scanned
             /\ last'.recon = "none"
             /\ last'.status \in {"ok", "404"}
             /\ (last'.status = "404") <=> ~Matched(last', cache.infos)
             /\ (last'.status = "ok") <=> Returned(last'.arg.result)
             /\ (last'.op = "get_aivm_info" /\ last'.status = "ok")
                    => last'.arg.result.returned
                           = Lookup(cache.infos, last'.arg.key)]_vars

C23_Witness ==
    /\ LookupStep(last)
    /\ last.op = "get_aivm_manifest_from_style_id"
    /\ last.status = "ok"
    /\ Len(cache.infos) = 2
    /\ last.arg.result.returned[1] = cache.infos[1].manifest
    /\ last.arg.result.returned[2].uuid = "spk-x"
    /\ last.arg.result.returned[3].local_id = 1

\* what a scan reads from the files: an index without the fields that load
\* state updates and update checks change afterwards
Core(infos) ==
    [i \in DOMAIN infos |->
        [manifest |-> infos[i].manifest, file_path |-> infos[i].file_path,
         speakers |-> infos[i].speakers]]

\* the index has one entry for every identity with a valid file, each read
\* from a valid file of its identity
Complete(c, fs) ==
    /\ Keys(c.infos) = ValidIdentities(fs)
    /\ Len(c.infos) = Cardinality(ValidIdentities(fs))
    /\ \A i \in DOMAIN c.infos :
           /\ ValidFile(c.infos[i].file_path, fs)
           /\ c.infos[i].manifest = ManifestOf(fs[c.infos[i].file_path])

\* the thread has left its loop over all the files it enumerated and assigns
\* the index it built from them
Swaps(my, c) ==
    /\ my.pc = "swap"
    /\ my.i > Len(my.aivm_file_paths)
    /\ Keys(my.sorted_aivm_infos) = Keys(my.aivm_infos)
    /\ c.infos = my.sorted_aivm_infos

\* C27 (ScanSpec): while threads run forced scans interleaved with each
\* other and with readers, the published cache is None or an index with all
\* the identities of the directory, and whenever its entries change it
\* becomes the index one thread built in a loop that has ended, or the one
\* __init__ built; it never holds the index of a scan still in its loop.
C27_NoPartialIndex ==
    [][/\ CacheIsNone(cache') \/ Complete(cache', files')
       /\ (~CacheIsNone(cache) /\ Core(cache'.infos) # Core(cache.infos))
              => \E t \in ScanThreads : Swaps(scans[t], cache')]_vars

C27_Witness ==
    /\ last.kind = "call"
    /\ last.op = "list"
    /\ ~last.arg.force
    /\ scans["t1"].pc = "loop"
    /\ scans["t1"].i = 2
    /\ Len(scans["t1"].aivm_infos) = 1
    /\ scans["t2"].pc = "swap"
    /\ Core(scans["t2"].sorted_aivm_infos) # Core(cache.infos)
    /\ Len(cache.infos) = 2

\* the speaker declares ja or ja-jp in some spelling
Declares(speaker_manifest) ==
    \E i \in DOMAIN speaker_manifest.supported_languages :
        speaker_manifest.supported_languages[i]
            \in {"ja", "JA", "Ja", "ja-jp", "JA-JP", "ja-JP", "Ja-Jp"}

\* C31 (VoiceSpec): in every cache, the speakers of an entry are the
\* speakers of its manifest that declare ja or ja-jp in any spelling, in the
\* order of the manifest, and every identity with a valid file has an entry,
\* also when none of its speakers is left.
C31_OnlyJapaneseSpeakers ==
    CacheIsNone(cache)
    \/ /\ Keys(cache.infos) = ValidIdentities(files)
       /\ \A i \in DOMAIN cache.infos :
              LET aivm_info == cache.infos[i]
                  kept == SelectSeq(aivm_info.manifest.speakers, Declares)
              IN  [j \in DOMAIN aivm_info.speakers |->
                      aivm_info.speakers[j].speaker.speaker_uuid]
                  = [j \in DOMAIN kept |-> kept[j].uuid]

C31_Witness ==
    /\ ~CacheIsNone(cache)
    /\ Len(cache.infos) = 2
    /\ \E i \in DOMAIN cache.infos :
           /\ cache.infos[i].speakers = <<>>
           /\ cache.infos[i].manifest.speakers # <<>>
    /\ \E i \in DOMAIN cache.infos :
           /\ Len(cache.infos[i].speakers) = 2
           /\ Len(cache.infos[i].manifest.speakers) = 3
           /\ cache.infos[i].speakers[2].speaker.speaker_uuid = "spk-y"

\* the style ids on the styles of the cached speakers
CachedStyleIds(infos) ==
    {infos[i].speakers[j].speaker.styles[k].id :
        <<i, j, k>> \in
            {t \in (DOMAIN infos) \X (1..3) \X (1..3) :
                /\ t[2] \in DOMAIN infos[t[1]].speakers
                /\ t[3] \in DOMAIN infos[t[1]].speakers[t[2]].speaker.styles}}

InSeq(x, seq) == \E i \in DOMAIN seq : seq[i] = x

\* C38 (VoiceSpec): get_aivm_manifest_from_style_id called with an id that is
\* on a style of a cached speaker returns a manifest of the cache, a speaker
\* of that manifest and a style of that speaker; the local_id of the style
\* is the low 5 bits of the id, and local_style_id_to_style_id of that
\* local_id and the uuid of the speaker is the id.
C38_StyleLookupConsistent ==
    [][(/\ LookupStep(last')
        /\ last'.op = "get_aivm_manifest_from_style_id"
        /\ last'.arg.key \in CachedStyleIds(cache.infos))
          => /\ last'.status = "ok"
             /\ LET triple == last'.arg.result.returned
                    aivm_manifest == triple[1]
                    aivm_manifest_speaker == triple[2]
                    aivm_manifest_style == triple[3]
                IN  /\ \E i \in DOMAIN cache.infos :
                           cache.infos[i].manifest = aivm_manifest
                    /\ InSeq(aivm_manifest_speaker, aivm_manifest.speakers)
                    /\ InSeq(aivm_manifest_style, aivm_manifest_speaker.styles)
                    /\ aivm_manifest_style.local_id
                           = style_id_to_local_style_id(last'.arg.key)
                    /\ local_style_id_to_style_id(
                           aivm_manifest_style.local_id,
                           aivm_manifest_speaker.uuid)
                       = Return(last'.arg.key)]_vars

C38_Witness ==
    /\ LookupStep(last)
    /\ last.op = "get_aivm_manifest_from_style_id"
    /\ last.status = "ok"
    /\ last.arg.result.returned[2].uuid = "spk-y"
    /\ last.arg.result.returned[3].local_id = 2
    /\ Len(last.arg.result.returned[1].speakers) = 3

\* the step is a call of get_style_id_from_model_name
NameLookup(step) ==
    step.kind = "call" /\ step.op = "get_style_id_from_model_name"

\* the cached speakers that have the name
Named(infos, model_name) ==
    SelectSeq(CachedSpeakers(infos), LAMBDA h :
        h.aivm_info_speaker.speaker.name = model_name)

\* C39 (VoiceSpec): get_style_id_from_model_name raises 500 exactly when no
\* cached speaker has the name, and otherwise returns the id of a style of a
\* cached speaker that has the name.
C39_StyleOfNamedSpeaker ==
    [][NameLookup(last')
          => /\ (last'.status = "500")
                    <=> Named(cache.infos, last'.arg.key) = <<>>
             /\ last'.status # "500"
                    => /\ last'.status = "ok"
                       /\ \E n \in DOMAIN Named(cache.infos, last'.arg.key) :
                              LET speaker ==
                                      Named(cache.infos, last'.arg.key)[n]
                                          .aivm_info_speaker.speaker
                              IN  \E k \in DOMAIN speaker.styles :
                                      speaker.styles[k].id
                                          = last'.arg.result.returned]_vars

\* the step is a call of install_aivm_from_url
UrlInstall(step) == step.kind = "call" /\ step.op = "install_from_url"

\* the call reached install_aivm, which recorded the package it was handed
InstallInvoked(step) == "fmt" \in DOMAIN step.arg

\* the URL the call was given
UrlOf(step) == IF InstallInvoked(step) THEN step.arg.of.url ELSE step.arg.url

\* C32 (WriteSpec): install_aivm_from_url given a model page URL without a
\* uuid raises 422 and does not reach install_aivm, and a call that does not
\* reach install_aivm, for that reason or because the download failed, has
\* raised 422 or 500, written no file, left the cache as it was, enumerated
\* no directory and started no update check.
C32_DownloadFailsBeforeInstall ==
    [][UrlInstall(last')
          => /\ UrlOf(last').kind = "hub_page_no_uuid"
                    => ~InstallInvoked(last') /\ last'.status = "422"
             /\ ~InstallInvoked(last')
                    => /\ last'.status \in {"422", "500"}
                       /\ ~last'.scan.scanned
                       /\ last'.recon = "none"
                       /\ UNCHANGED <<files, cache, dispatched, tasks,
                                      syncTasks>>]_vars

C32_Witness ==
    /\ UrlInstall(last)
    /\ ~InstallInvoked(last)
    /\ UrlOf(last).kind = "hub_page"
    /\ last.status = "500"
    /\ Len(cache.infos) = 2

\* C33 (DiskSpec): when uninstall_aivm has removed the file of a cached entry
\* and published the rescanned cache, get_aivm_info of the identity raises
\* 404 and the cache has one entry fewer than before, also when the
\* directory held a second file of the identity.
C33_UninstalledIdentityGone ==
    [][(/\ last'.kind = "call"
        /\ last'.op = "uninstall"
        /\ last'.status \in {"ok", "running"})
          => /\ Raised(get_aivm_info(cache'.infos, last'.arg.uuid))
             /\ Len(cache'.infos) = Len(cache.infos) - 1]_vars

\* C36 (HubSpec): in every state every cached entry with
\* is_update_available true has a latest_version that parses as a semantic
\* version and is greater than the version of its manifest.
C36_FlagImpliesNewerVersion ==
    ~CacheIsNone(cache)
        => \A i \in DOMAIN cache.infos :
               cache.infos[i].is_update_available
                   => /\ Parseable(cache.infos[i].latest_version)
                      /\ Parseable(cache.infos[i].manifest.version)
                      /\ SemverGreater(cache.infos[i].latest_version,
                                       cache.infos[i].manifest.version)

\* C37 (HubSpec): a forced get_installed_aivm_infos that publishes a
\* rescanned cache, whose update check has then not completed, leaves
\* is_update_available and latest_version of every entry that stays in the
\* cache as they were.
C37_RescanKeepsUpdateInfo ==
    [][(/\ last'.kind = "call"
        /\ last'.op = "list"
        /\ last'.arg.force
        /\ last'.scan.scanned
        /\ last'.status \in {"ok", "running"}
        /\ ~CacheIsNone(cache))
          => \A u \in Keys(cache.infos) \cap Keys(cache'.infos) :
                 LET before == Lookup(cache.infos, u)
                     after == Lookup(cache'.infos, u)
                 IN  /\ after.is_update_available = before.is_update_available
                     /\ after.latest_version = before.latest_version]_vars

\* C34 (LoadRaceSpec): the cache a forced call of get_installed_aivm_infos
\* publishes has, for every entry that stays in the cache, the load state
\* the entry had when it was replaced, whenever update_model_load_state ran
\* during the call.
C34_LoadStateNeverLost ==
    [][(/\ last'.kind = "scan"
        /\ last'.arg.pc = "swap"
        /\ ~CacheIsNone(cache))
          => \A u \in Keys(cache.infos) \cap Keys(cache'.infos) :
                 Lookup(cache'.infos, u).is_loaded
                     = Lookup(cache.infos, u).is_loaded]_vars

\* a step that publishes the cache of a forced rescan
ForcedRescan ==
    /\ last'.kind = "call"
    /\ last'.op = "list"
    /\ last'.scan.scanned

\* a rescan or the constructor could not start the thread of its update check
StartFailed == last.recon = "start_failed"

\* every entry has the version the catalog answers and the flag that says
\* whether that version is greater than the installed one
UpToDate ==
    /\ ~CacheIsNone(cache)
    /\ \A i \in DOMAIN cache.infos :
           /\ cache.infos[i].latest_version = V120
           /\ cache.infos[i].is_update_available
                  = SemverGreater(V120, cache.infos[i].manifest.version)

\* C35 (FairSpec): with a catalog that answers every request with version
\* 1.2.0 and every update check started, a run in which forced rescans,
\* waiting or not, stop being called reaches a state from which every entry
\* has latest_version 1.2.0 and is_update_available true exactly when 1.2.0
\* is greater than its installed version, whatever passes of earlier rescans
\* were in flight when the last cache was published.
C35_EventuallyUpToDate ==
    \/ []<><<ForcedRescan>>_vars
    \/ <>StartFailed
    \/ <>[]UpToDate

\* a waiting rescan has published a cache while the pass of an earlier
\* rescan had requests in flight, and the entries are up to date
C35_Witness ==
    /\ UpToDate
    /\ last.kind = "fetch"
    /\ last.op = "list"
    /\ last.status = "ok"
    /\ dispatched > 0
    /\ \E i \in DOMAIN cache.infos : cache.infos[i].is_update_available
    /\ \E i \in DOMAIN cache.infos : ~cache.infos[i].is_update_available

\* the step is a call of the handler synthesis_from_text
Synthesis(step) == step.kind = "call" /\ step.op = "synthesis_from_text"

\* the calls of the engine's synthesis among the events, in order
Attempts(events) == SelectSeq(events, LAMBDA e : e.call = "synthesize")

\* at most four attempts; an unload right after every attempt that ran out
\* of memory and nowhere else; a further attempt after an unload while
\* fewer than four were made; nothing after an attempt that returned or
\* raised another error
RetriesAsStated(events) ==
    /\ Len(Attempts(events)) <= 4
    /\ \A i \in DOMAIN events :
           /\ events[i] = EngineCall("synthesize", "oom")
                  => /\ i < Len(events)
                     /\ events[i + 1].call = "unload_oldest_model"
           /\ events[i].call = "unload_oldest_model"
                  => /\ i > 1
                     /\ events[i - 1] = EngineCall("synthesize", "oom")
                     /\ i < Len(events)
                            <=> Len(Attempts(SubSeq(events, 1, i))) < 4
                     /\ i < Len(events) => events[i + 1].call = "synthesize"
           /\ (events[i].call = "synthesize" /\ events[i].result # "oom")
                  => i = Len(events)

\* four attempts were made and all ran out of memory
AllOutOfMemory(events) ==
    /\ Len(Attempts(events)) = 4
    /\ \A i \in DOMAIN events :
           events[i].call = "synthesize" => events[i].result = "oom"

\* C40 (SynthSpec), as stated: the handler makes at most four attempts,
\* unloads the oldest model once after each attempt that ran out of memory
\* and retries, stops at the first attempt that returns, and raises 500
\* exactly when all four attempts ran out of memory.
C40_FailsOnlyAfterFourAttempts ==
    [][Synthesis(last')
          => /\ RetriesAsStated(last'.arg.events)
             /\ (last'.status = "500")
                    <=> AllOutOfMemory(last'.arg.events)]_vars

\* C40 (SynthSpec), amended: as above, but the handler raises 500 exactly
\* when no cached speaker has the name, in which case it makes no attempt
\* and unloads nothing, or when all four attempts ran out of memory.
C40_FailsUnknownOrFourAttempts ==
    [][Synthesis(last')
          => /\ RetriesAsStated(last'.arg.events)
             /\ Named(cache.infos, last'.arg.model_name) = <<>>
                    => last'.arg.events = <<>> /\ cache' = cache
             /\ (last'.status = "500")
                    <=> \/ Named(cache.infos, last'.arg.model_name) = <<>>
                        \/ AllOutOfMemory(last'.arg.events)]_vars

C40_Witness ==
    /\ Synthesis(last)
    /\ last.status = "500"
    /\ Len(last.arg.events) = 8
    /\ AllOutOfMemory(last.arg.events)
    /\ Named(cache.infos, last.arg.model_name) # <<>>
    /\ \A i \in DOMAIN cache.infos : ~cache.infos[i].is_loaded

====
